---- MODULE Spec2Model ----
(***************************************************************************)
(* Model of the dependency-scan pipeline of src/tools/dependency_scanner.py *)
(* (DependencyScanner): locator, per-format parsers, upgrade checker and    *)
(* report assembly.  Text is modelled as sequences of one-character         *)
(* strings so that strip/split/startswith are computed, not assumed.        *)
(* Further specifications model the vector database (src/tools/vector_db.py)*)
(* the commit operation (src/tools/git_operations.py) and the interactive   *)
(* loop (src/main.py).                                                      *)
(***************************************************************************)
EXTENDS Integers, Sequences, FiniteSets, TLC

VARIABLES
    pathExists,         \* Path(REPO_LOCAL_PATH).exists()
    tree,               \* the files under the project root
    fileText,           \* what read_text() gives for each file read so far
    registry,           \* what the package registry answers for each name asked so far
                        \* (the registry does not change while the model runs)
    dirOrder,           \* order in which this scan's scandir lists the subdirectories
    pc,                 \* position of the running _run call
    project_type,       \* _run local
    dependency_files,   \* _run local
    dependencies,       \* _run local / _parse_dependencies accumulator
    upgrade_candidates, \* _run local / _find_upgrade_candidates accumulator
    fileIdx,            \* next index of `for file_path in dependency_files`
    depIdx,             \* next index of `for dep in dependencies`
    parsed,             \* history: per parsed file, the records it contributed
    calls,              \* history: the external lookups made, in order
    candSrc,            \* history: index of the dependency each candidate came from
    returned,           \* <<>> while _run is running, <<value>> once it has returned
    previous,           \* <<>>, or <<value>> returned by the call before this one
    parserIn,           \* input handed to a per-file parser (parser specification)
    parserOut,          \* <<>> before the parser ran, <<result>> afterwards
    dbPath,             \* os.path.exists(self.vector_db_path)
    vector_store,       \* CodeVectorDB.vector_store: "None", "loaded" or "built"
    vdbLog,             \* history: the calls made on the CodeVectorDB instance
    worktree,           \* the files that exist under the repository path
    dirty,              \* files with changes that are not staged
    staged,             \* files with staged changes (git diff --staged)
    commits,            \* the commits created, in order
    gitLog,             \* history: the _commit_changes calls made
    loopPc,             \* run_interactive_mode: "off", "input" or "left"
    inputLog            \* history: the lines read, with what agent.run did

envVars == <<pathExists, tree, fileText, registry>>
scanVars == <<dirOrder, pc, project_type, dependency_files, dependencies,
              upgrade_candidates, fileIdx, depIdx, parsed, calls, candSrc>>
parserVars == <<parserIn, parserOut>>
vdbVars == <<dbPath, vector_store, vdbLog>>
gitVars == <<worktree, dirty, staged, commits, gitLog>>
loopVars == <<loopPc, inputLog>>
toolVars == <<vdbVars, gitVars, loopVars>>

vars == <<envVars, scanVars, returned, previous, parserVars, toolVars>>

\* the vector database, the repository and the interactive loop when the
\* specification at hand does not run them
VdbIdle == dbPath = FALSE /\ vector_store = "None" /\ vdbLog = <<>>
GitIdle ==
    worktree = {} /\ dirty = {} /\ staged = {} /\ commits = <<>> /\ gitLog = <<>>
LoopIdle == loopPc = "off" /\ inputLog = <<>>

----------------------------------------------------------------------------
(* Bounds *)

\* longest generated text (characters) fed to the text-level parsers
MaxLen == 5

\* most files in a project tree
MaxFiles == 2

\* most <dependency> blocks in a generated pom.xml
MaxBlocks == 2

\* most calls made on one tool in the specifications of the vector
\* database and of the commit operation
MaxCalls == 3

\* most lines read by the interactive loop
MaxLines == 3

----------------------------------------------------------------------------
(* Python str helpers over character sequences *)

Min(S) == CHOOSE x \in S : \A y \in S : x <= y
Max(S) == CHOOSE x \in S : \A y \in S : x >= y

Range(seq) == {seq[i] : i \in 1..Len(seq)}

\* characters removed by str.strip() with no argument
Whitespace == {" ", "\t", "\n", "\r"}

\* line boundaries recognised by str.splitlines()
LineBreaks == {"\n", "\r"}

\* s.startswith(p)
StartsWith(s, p) == Len(s) >= Len(p) /\ SubSeq(s, 1, Len(p)) = p

\* index of the first occurrence of p in s, 0 when p does not occur (s.find(p) + 1)
Find(s, p) ==
    LET hits == {i \in 1..(Len(s) - Len(p) + 1) : SubSeq(s, i, i + Len(p) - 1) = p}
    IN IF hits = {} THEN 0 ELSE Min(hits)

\* p in s
Contains(s, p) == Find(s, p) # 0

\* s.strip()
Strip(s) ==
    LET keep == {i \in 1..Len(s) : s[i] \notin Whitespace}
    IN IF keep = {} THEN <<>> ELSE SubSeq(s, Min(keep), Max(keep))

\* s.split(sep, 1) for a separator that occurs in s: <<before, after>>
SplitOnce(s, sep) ==
    LET i == Find(s, sep)
    IN <<SubSeq(s, 1, i - 1), SubSeq(s, i + Len(sep), Len(s))>>

\* s.splitlines()
RECURSIVE SplitLines(_)
SplitLines(s) ==
    IF s = <<>> THEN <<>>
    ELSE LET brk == {i \in 1..Len(s) : s[i] \in LineBreaks}
         IN IF brk = {} THEN <<s>>
            ELSE LET i == Min(brk)
                     j == IF s[i] = "\r" /\ i < Len(s) /\ s[i + 1] = "\n"
                          THEN i + 1 ELSE i
                 IN <<SubSeq(s, 1, i - 1)>> \o SplitLines(SubSeq(s, j + 1, Len(s)))

\* all character sequences over alphabet A of length at most n
RECURSIVE SeqsUpTo(_, _)
SeqsUpTo(A, n) ==
    IF n = 0 THEN {<<>>}
    ELSE LET shorter == SeqsUpTo(A, n - 1)
         IN shorter \cup {Append(s, c) : s \in {t \in shorter : Len(t) = n - 1}, c \in A}

----------------------------------------------------------------------------
(* Files as seen by Path.read_text(): either the text or an exception *)

ReadError == [ok |-> FALSE]
ReadOk(text) == [ok |-> TRUE, text |-> text]

----------------------------------------------------------------------------
(* _parse_requirements_txt *)

EqEq == <<"=", "=">>
GtEq == <<">", "=">>
Hash == <<"#">>

\* variant: the `'>=' in line` test before the `'==' in line` test
RequirementRecord_GtEqFirst(line, file_path) ==
    IF Contains(line, GtEq)
    THEN LET parts == SplitOnce(line, GtEq)
         IN <<[name |-> Strip(parts[1]), version |-> Strip(parts[2]),
               constraint |-> GtEq, file |-> file_path]>>
    ELSE IF Contains(line, EqEq)
    THEN LET parts == SplitOnce(line, EqEq)
         IN <<[name |-> Strip(parts[1]), version |-> Strip(parts[2]),
               constraint |-> EqEq, file |-> file_path]>>
    ELSE <<>>

\* the records one already-stripped, non-comment line contributes (zero or one)
RequirementRecord(line, file_path) ==
    IF Contains(line, EqEq)
    THEN LET parts == SplitOnce(line, EqEq)
         IN <<[name |-> Strip(parts[1]), version |-> Strip(parts[2]),
               constraint |-> EqEq, file |-> file_path]>>
    ELSE IF Contains(line, GtEq)
    THEN LET parts == SplitOnce(line, GtEq)
         IN <<[name |-> Strip(parts[1]), version |-> Strip(parts[2]),
               constraint |-> GtEq, file |-> file_path]>>
    ELSE <<>>

\* variant: the loop without its `line.startswith('#')` test
RequirementLine_KeepComments(rawLine, file_path) ==
    LET line == Strip(rawLine)
    IN IF line = <<>> THEN <<>> ELSE RequirementRecord(line, file_path)

\* one iteration of the `for line in content.splitlines()` loop
RequirementLine(rawLine, file_path) ==
    LET line == Strip(rawLine)
    IN IF line = <<>> \/ StartsWith(line, Hash) THEN <<>>
       ELSE RequirementRecord(line, file_path)

RECURSIVE RequirementLines(_, _)
RequirementLines(lines, file_path) ==
    IF lines = <<>> THEN <<>>
    ELSE RequirementLine(Head(lines), file_path) \o RequirementLines(Tail(lines), file_path)

\* _parse_requirements_txt(file_path); `read` is what file_path.read_text() does
parse_requirements_txt(read, file_path) ==
    IF ~read.ok THEN <<>>
    ELSE RequirementLines(SplitLines(read.text), file_path)

----------------------------------------------------------------------------
(* Values produced by json.loads: dict (insertion-ordered items with distinct *)
(* keys), list, str and number                                               *)

JStr(chars) == [type |-> "str", chars |-> chars, items |-> <<>>]
JNum == [type |-> "num", chars |-> <<>>, items |-> <<>>]
JList == [type |-> "list", chars |-> <<>>, items |-> <<>>]
JDict(items) == [type |-> "dict", chars |-> <<>>, items |-> items]
Item(key, value) == [key |-> key, value |-> value]

\* key in d, for a dict d
HasKey(d, key) == \E i \in 1..Len(d.items) : d.items[i].key = key

\* d[key], for a dict d holding key
Lookup(d, key) == d.items[CHOOSE i \in 1..Len(d.items) : d.items[i].key = key].value

\* package.json as read: unreadable, not JSON, or the value json.loads returns
JsonUnreadable == [ok |-> FALSE, valid |-> FALSE, value |-> JNum]
JsonInvalid == [ok |-> TRUE, valid |-> FALSE, value |-> JNum]
JsonOk(value) == [ok |-> TRUE, valid |-> TRUE, value |-> value]

----------------------------------------------------------------------------
(* _parse_package_json *)

Caret == <<"^">>
Tilde == <<"~">>

\* variant: the two maps visited in the other order
DepTypes_DevFirst == <<"devDependencies", "dependencies">>

\* the list of the `for dep_type in [...]` loop
DepTypes == <<"dependencies", "devDependencies">>

\* variant: the first character removed without the startswith tests
PackageRecord_AlwaysStrip(name, version, dep_type, file_path) ==
    [name |-> name, version |-> SubSeq(version, 2, Len(version)),
     constraint |-> IF StartsWith(version, Tilde) THEN Tilde ELSE Caret,
     type |-> dep_type, file |-> file_path]

\* variant: only the caret branch, the `elif version.startswith("~")` missing
PackageRecord_CaretOnly(name, version, dep_type, file_path) ==
    [name |-> name,
     version |-> IF StartsWith(version, Caret) THEN SubSeq(version, 2, Len(version))
                 ELSE version,
     constraint |-> Caret, type |-> dep_type, file |-> file_path]

\* variant: constraint initialised to the empty string, so that a version
\* without prefix is recorded without a constraint
PackageRecord_NoDefault(name, version, dep_type, file_path) ==
    LET constraint == IF StartsWith(version, Caret) THEN Caret
                      ELSE IF StartsWith(version, Tilde) THEN Tilde
                      ELSE <<>>
        clean_version == IF StartsWith(version, Caret) \/ StartsWith(version, Tilde)
                         THEN SubSeq(version, 2, Len(version))
                         ELSE version
    IN [name |-> name, version |-> clean_version, constraint |-> constraint,
        type |-> dep_type, file |-> file_path]

\* the record appended for one (name, version) item whose version is a str
PackageRecord(name, version, dep_type, file_path) ==
    LET constraint == IF StartsWith(version, Caret) THEN Caret
                      ELSE IF StartsWith(version, Tilde) THEN Tilde
                      ELSE Caret
        clean_version == IF StartsWith(version, Caret) \/ StartsWith(version, Tilde)
                         THEN SubSeq(version, 2, Len(version))
                         ELSE version
    IN [name |-> name, version |-> clean_version, constraint |-> constraint,
        type |-> dep_type, file |-> file_path]

\* `for name, version in content[dep_type].items()`: the records appended
\* before the loop ends or version.startswith raises (ok = FALSE)
RECURSIVE PackageItems(_, _, _)
PackageItems(items, dep_type, file_path) ==
    IF items = <<>> THEN [recs |-> <<>>, ok |-> TRUE]
    ELSE IF Head(items).value.type # "str" THEN [recs |-> <<>>, ok |-> FALSE]
    ELSE LET rest == PackageItems(Tail(items), dep_type, file_path)
         IN [recs |-> <<PackageRecord(Head(items).key, Head(items).value.chars,
                                      dep_type, file_path)>> \o rest.recs,
             ok |-> rest.ok]

\* one iteration of `for dep_type in [...]` on a dict or list content
PackageSection(content, dep_type, file_path) ==
    IF content.type = "list" \/ ~HasKey(content, dep_type)
    THEN [recs |-> <<>>, ok |-> TRUE]
    ELSE IF Lookup(content, dep_type).type # "dict"
    THEN [recs |-> <<>>, ok |-> FALSE]
    ELSE PackageItems(Lookup(content, dep_type).items, dep_type, file_path)

RECURSIVE PackageSections(_, _, _)
PackageSections(content, dep_types, file_path) ==
    IF dep_types = <<>> THEN <<>>
    ELSE LET first == PackageSection(content, Head(dep_types), file_path)
         IN IF first.ok
            THEN first.recs \o PackageSections(content, Tail(dep_types), file_path)
            ELSE first.recs

\* _parse_package_json(file_path): every exception ends the parse and the
\* records appended so far are returned
parse_package_json(read, file_path) ==
    IF ~read.ok \/ ~read.valid THEN <<>>
    ELSE IF read.value.type \notin {"dict", "list"} THEN <<>>
    ELSE PackageSections(read.value, DepTypes, file_path)

\* whether _parse_package_json reached its `except Exception` handler
PackageJsonRaised(read) ==
    IF ~read.ok \/ ~read.valid THEN TRUE
    ELSE IF read.value.type \notin {"dict", "list"} THEN TRUE
    ELSE \E i \in 1..Len(DepTypes) :
            /\ ~PackageSection(read.value, DepTypes[i], <<>>).ok
            /\ \A j \in 1..(i - 1) : PackageSection(read.value, DepTypes[j], <<>>).ok

----------------------------------------------------------------------------
(* _parse_pom_xml: the pattern applied to the file as a sequence of elements *)

PomOpen == [tag |-> "<dependency>", text |-> <<>>]
PomClose == [tag |-> "</dependency>", text |-> <<>>]
PomGroupId(t) == [tag |-> "groupId", text |-> t]
PomArtifactId(t) == [tag |-> "artifactId", text |-> t]
PomVersion(t) == [tag |-> "version", text |-> t]
PomOther == [tag |-> "other", text |-> <<>>]

PomUnreadable == [ok |-> FALSE, elements |-> <<>>]
PomOk(elements) == [ok |-> TRUE, elements |-> elements]

\* variant: a greedy [\s\S]* in place of the lazy one, reaching the last
\* element with this tag
FirstTag_Greedy(elements, tag, from) ==
    LET hits == {i \in from..Len(elements) : elements[i].tag = tag}
    IN IF from = 0 \/ hits = {} THEN 0 ELSE Max(hits)

\* index of the first element with this tag at or after position from, 0 if none
\* (a lazy [\s\S]*? followed by the literal tag)
FirstTag(elements, tag, from) ==
    LET hits == {i \in from..Len(elements) : elements[i].tag = tag}
    IN IF from = 0 \/ hits = {} THEN 0 ELSE Min(hits)

Colon == <<":">>

\* re.findall(dep_pattern, content) from position from, turned into records
RECURSIVE PomMatches(_, _, _)
PomMatches(elements, from, file_path) ==
    LET d == FirstTag(elements, "<dependency>", from)
        g == FirstTag(elements, "groupId", IF d = 0 THEN 0 ELSE d + 1)
        a == FirstTag(elements, "artifactId", IF g = 0 THEN 0 ELSE g + 1)
        v == FirstTag(elements, "version", IF a = 0 THEN 0 ELSE a + 1)
        c == FirstTag(elements, "</dependency>", IF v = 0 THEN 0 ELSE v + 1)
    IN IF c = 0 THEN <<>>
       ELSE <<[name |-> elements[g].text \o Colon \o elements[a].text,
               group_id |-> elements[g].text,
               artifact_id |-> elements[a].text,
               version |-> elements[v].text,
               file |-> file_path]>> \o PomMatches(elements, c + 1, file_path)

\* _parse_pom_xml(file_path)
parse_pom_xml(read, file_path) ==
    IF ~read.ok THEN <<>> ELSE PomMatches(read.elements, 1, file_path)

----------------------------------------------------------------------------
(* Paths.  A path is its directory components and its file name split as     *)
(* pathlib does (stem, suffix); str(path) is one-to-one with this record.    *)

\* Path(REPO_LOCAL_PATH)
Root == <<"repo">>

MkPath(dir, stem, suffix) == [dir |-> dir, stem |-> stem, suffix |-> suffix]

\* f.relative_to(project_path)
RelativeTo(f, base) == [f EXCEPT !.dir = SubSeq(f.dir, Len(base) + 1, Len(f.dir))]

\* a glob pattern "**/<stem><suffix>"; stem "*" is the wildcard of "**/*.csproj"
Pattern(stem, suffix) == [stem |-> stem, suffix |-> suffix]

\* fnmatch of a file name against the last component of the pattern
Matches(f, pat) == f.suffix = pat.suffix /\ (pat.stem = "*" \/ f.stem = pat.stem)

\* file_path.name == "<stem><suffix>"
NameIs(f, stem, suffix) == f.stem = stem /\ f.suffix = suffix

FileNames ==
    {<<"requirements", ".txt">>, <<"setup", ".py">>, <<"pyproject", ".toml">>,
     <<"package", ".json">>, <<"pom", ".xml">>, <<"build", ".gradle">>,
     <<"build.gradle", ".kts">>, <<"app", ".csproj">>, <<"README", ".md">>}

\* the project root and two sibling subdirectories
Dirs == {Root, Root \o <<"svc1">>, Root \o <<"svc2">>}

AllPaths == {MkPath(d, n[1], n[2]) : d \in Dirs, n \in FileNames}

\* the subsets of S with at most n elements
RECURSIVE SetsUpTo(_, _)
SetsUpTo(S, n) ==
    IF n = 0 THEN {{}}
    ELSE LET smaller == SetsUpTo(S, n - 1)
         IN smaller \cup {t \cup {x} : t \in smaller, x \in S}

\* the orders in which a set can be enumerated
RECURSIVE Perms(_)
Perms(S) ==
    IF S = {} THEN {<<>>}
    ELSE UNION {{<<x>> \o p : p \in Perms(S \ {x})} : x \in S}

SubDirs(files) == {f.dir : f \in files} \ {Root}

----------------------------------------------------------------------------
(* _detect_project_type *)

NoType == "None"

\* the matches of a pattern directly inside one directory (the model's file
\* names give at most one match per pattern and directory)
GlobIn(files, dir, pat) ==
    LET hits == {f \in files : f.dir = dir /\ Matches(f, pat)}
    IN IF hits = {} THEN <<>> ELSE <<CHOOSE f \in hits : TRUE>>

RECURSIVE GlobDirs(_, _, _)
GlobDirs(files, dirs, pat) ==
    IF dirs = <<>> THEN <<>>
    ELSE GlobIn(files, Head(dirs), pat) \o GlobDirs(files, Tail(dirs), pat)

\* list(project_path.glob("**/<pat>")): the root itself first, then the
\* subdirectories in the order scandir lists them
Glob(files, order, pat) == GlobDirs(files, <<Root>> \o order, pat)

\* variant: the pom.xml test placed before the package.json test
detect_project_type_MavenFirst(files, order) ==
    LET python == Glob(files, order, Pattern("requirements", ".txt"))
                  \o Glob(files, order, Pattern("setup", ".py"))
                  \o Glob(files, order, Pattern("pyproject", ".toml"))
        package_json == Glob(files, order, Pattern("package", ".json"))
        pom_xml == Glob(files, order, Pattern("pom", ".xml"))
        build_gradle == Glob(files, order, Pattern("build", ".gradle"))
                        \o Glob(files, order, Pattern("build.gradle", ".kts"))
        csproj_files == Glob(files, order, Pattern("*", ".csproj"))
    IN IF python # <<>> THEN <<"python", python>>
       ELSE IF pom_xml # <<>> THEN <<"maven", pom_xml>>
       ELSE IF package_json # <<>> THEN <<"nodejs", package_json>>
       ELSE IF build_gradle # <<>> THEN <<"gradle", build_gradle>>
       ELSE IF csproj_files # <<>> THEN <<"dotnet", csproj_files>>
       ELSE <<NoType, <<>>>>

\* _detect_project_type(project_path): <<project_type, dependency_files>>
detect_project_type(files, order) ==
    LET requirements_txt == Glob(files, order, Pattern("requirements", ".txt"))
        setup_py == Glob(files, order, Pattern("setup", ".py"))
        pyproject_toml == Glob(files, order, Pattern("pyproject", ".toml"))
        package_json == Glob(files, order, Pattern("package", ".json"))
        pom_xml == Glob(files, order, Pattern("pom", ".xml"))
        build_gradle == Glob(files, order, Pattern("build", ".gradle"))
                        \o Glob(files, order, Pattern("build.gradle", ".kts"))
        csproj_files == Glob(files, order, Pattern("*", ".csproj"))
    IN IF requirements_txt # <<>> \/ setup_py # <<>> \/ pyproject_toml # <<>>
       THEN <<"python", requirements_txt \o setup_py \o pyproject_toml>>
       ELSE IF package_json # <<>> THEN <<"nodejs", package_json>>
       ELSE IF pom_xml # <<>> THEN <<"maven", pom_xml>>
       ELSE IF build_gradle # <<>> THEN <<"gradle", build_gradle>>
       ELSE IF csproj_files # <<>> THEN <<"dotnet", csproj_files>>
       ELSE <<NoType, <<>>>>

----------------------------------------------------------------------------
(* CompilationTool._detect_project_type (src/tools/compilation.py) *)

\* bool(list(self.project_path.glob("**/<pat>")))
Globs(files, pat) == \E f \in files : Matches(f, pat)

compilation_detect_project_type(files) ==
    IF \/ Globs(files, Pattern("requirements", ".txt"))
       \/ Globs(files, Pattern("setup", ".py"))
       \/ Globs(files, Pattern("pyproject", ".toml"))
    THEN "python"
    ELSE IF Globs(files, Pattern("package", ".json")) THEN "nodejs"
    ELSE IF Globs(files, Pattern("pom", ".xml")) THEN "maven"
    ELSE IF \/ Globs(files, Pattern("build", ".gradle"))
            \/ Globs(files, Pattern("build.gradle", ".kts"))
    THEN "gradle"
    ELSE IF \/ Globs(files, Pattern("*", ".csproj"))
            \/ Globs(files, Pattern("*", ".sln"))
    THEN "dotnet"
    ELSE NoType

----------------------------------------------------------------------------
(* The _run dispatchers of CodeAnalysisTool, CompilationTool and             *)
(* GitOperationsTool.  A call is described by the handlers it invokes, in    *)
(* order, and the value it returns; files, commands and git are reached      *)
(* through the handlers only.                                                *)

\* `return self.<handler>(...)`: the handler runs and its value is returned
Handled(handler) == [handlers |-> <<handler>>, value |-> [handled_by |-> handler]]

\* return {"error": f"Unknown operation: {operation}"}
UnknownOperation(operation) ==
    [handlers |-> <<>>, value |-> [error |-> <<"Unknown operation: ", operation>>]]

\* return {"error": f"{self.repo_path} is not a valid Git repository"}
InvalidRepository ==
    [handlers |-> <<>>, value |-> [error |-> <<"repo", " is not a valid Git repository">>]]

\* CodeAnalysisTool._run(operation, ...)
code_analysis_run(operation) ==
    IF operation = "analyze_file" THEN Handled("_analyze_file")
    ELSE IF operation = "modify_file" THEN Handled("_modify_file")
    ELSE IF operation = "search_code" THEN Handled("_search_code")
    ELSE IF operation = "get_file" THEN Handled("_get_file")
    ELSE UnknownOperation(operation)

\* variant: a final else that runs the tests for every other operation
compilation_run_DefaultTest(operation) ==
    IF operation = "compile" THEN Handled("_compile_project")
    ELSE Handled("_run_tests")

\* CompilationTool._run(operation, ...)
compilation_run(operation) ==
    IF operation = "compile" THEN Handled("_compile_project")
    ELSE IF operation = "test" THEN Handled("_run_tests")
    ELSE UnknownOperation(operation)

\* GitOperationsTool._run(operation, ...); repo is whether self.repo is set
git_run(repo, operation) ==
    IF ~repo THEN InvalidRepository
    ELSE IF operation = "create_branch" THEN Handled("_create_branch")
    ELSE IF operation = "commit" THEN Handled("_commit_changes")
    ELSE IF operation = "push" THEN Handled("_push_changes")
    ELSE IF operation = "create_pr" THEN Handled("_create_pull_request")
    ELSE UnknownOperation(operation)

----------------------------------------------------------------------------
(* _parse_dependencies: one iteration of `for file_path in dependency_files` *)

\* whether the iteration calls a per-file parser
HasParser(ptype, f) ==
    \/ ptype = "python" /\ NameIs(f, "requirements", ".txt")
    \/ ptype = "nodejs" /\ NameIs(f, "package", ".json")
    \/ ptype = "maven" /\ NameIs(f, "pom", ".xml")

\* the records the iteration extends `dependencies` with
parse_file(ptype, f, read) ==
    IF ptype = "python" /\ NameIs(f, "requirements", ".txt")
    THEN parse_requirements_txt(read, f)
    ELSE IF ptype = "nodejs" /\ NameIs(f, "package", ".json")
    THEN parse_package_json(read, f)
    ELSE IF ptype = "maven" /\ NameIs(f, "pom", ".xml")
    THEN parse_pom_xml(read, f)
    ELSE <<>>

\* whether the per-file parser reached its `except Exception` handler
ParseRaised(ptype, f, read) ==
    IF ~HasParser(ptype, f) THEN FALSE
    ELSE IF ptype = "nodejs" THEN PackageJsonRaised(read)
    ELSE ~read.ok

----------------------------------------------------------------------------
(* Registry answers and the three upgrade checks *)

PkgName == <<"x">>
OtherPkgName == <<"y">>

V10 == <<"1", ".", "0">>
V20 == <<"2", ".", "0">>
CommaSpace == <<",", " ">>
Newline == <<"\n">>

AvailableVersions ==
    <<"A", "v", "a", "i", "l", "a", "b", "l", "e", " ",
      "v", "e", "r", "s", "i", "o", "n", "s", ":", " ">>

\* subprocess.run(...) raising, or its CompletedProcess
ProcRaises == [raises |-> TRUE, returncode |-> 1, stdout |-> <<>>]
Proc(returncode, stdout) == [raises |-> FALSE, returncode |-> returncode, stdout |-> stdout]

\* requests.get(url) raising, or its Response; json |-> FALSE when
\* response.json() or the field access raises
HttpRaises == [raises |-> TRUE, status_code |-> 0, json |-> FALSE, numFound |-> 0, docs |-> <<>>]
Http(status_code, json, numFound, docs) ==
    [raises |-> FALSE, status_code |-> status_code, json |-> json,
     numFound |-> numFound, docs |-> docs]

\* the part of s before the first line break (what `(.*)` can capture)
RestOfLine(s) ==
    LET i == Find(s, Newline)
    IN IF i = 0 THEN s ELSE SubSeq(s, 1, i - 1)

\* re.findall(r"Available versions: (.*)", output): the first capture, if any
FirstAvailable(output) ==
    LET i == Find(output, AvailableVersions)
    IN IF i = 0 THEN <<>>
       ELSE <<RestOfLine(SubSeq(output, i + Len(AvailableVersions), Len(output)))>>

\* s.split(sep)[0]
FirstField(s, sep) ==
    LET i == Find(s, sep)
    IN IF i = 0 THEN s ELSE SubSeq(s, 1, i - 1)

\* variant: the candidate reports the file relative to the project root
check_python_upgrade_RelativeFile(dependency, result) ==
    IF result.raises \/ result.returncode # 0 \/ FirstAvailable(result.stdout) = <<>>
    THEN <<>>
    ELSE LET latest_version == FirstField(FirstAvailable(result.stdout)[1], CommaSpace)
         IN IF latest_version # dependency.version
            THEN <<[name |-> dependency.name,
                    current_version |-> dependency.version,
                    latest_version |-> latest_version,
                    file |-> RelativeTo(dependency.file, Root)]>>
            ELSE <<>>

\* _check_python_upgrade(dependency): <<>> for None, else <<candidate>>
check_python_upgrade(dependency, result) ==
    IF result.raises THEN <<>>
    ELSE IF result.returncode # 0 THEN <<>>
    ELSE LET available_versions == FirstAvailable(result.stdout)
         IN IF available_versions = <<>> THEN <<>>
            ELSE LET latest_version == FirstField(available_versions[1], CommaSpace)
                 IN IF latest_version # dependency.version
                    THEN <<[name |-> dependency.name,
                            current_version |-> dependency.version,
                            latest_version |-> latest_version,
                            file |-> dependency.file]>>
                    ELSE <<>>

\* variant: the `latest_version != current_version` test missing
check_nodejs_upgrade_NoCompare(dependency, result) ==
    IF result.raises \/ result.returncode # 0 THEN <<>>
    ELSE <<[name |-> dependency.name,
            current_version |-> dependency.version,
            latest_version |-> Strip(result.stdout),
            type |-> dependency.type,
            file |-> dependency.file]>>

\* variant: the `result.returncode == 0` test missing
check_nodejs_upgrade_IgnoreReturncode(dependency, result) ==
    IF result.raises THEN <<>>
    ELSE LET latest_version == Strip(result.stdout)
         IN IF latest_version # dependency.version
            THEN <<[name |-> dependency.name,
                    current_version |-> dependency.version,
                    latest_version |-> latest_version,
                    type |-> dependency.type,
                    file |-> dependency.file]>>
            ELSE <<>>

\* _check_nodejs_upgrade(dependency)
check_nodejs_upgrade(dependency, result) ==
    IF result.raises THEN <<>>
    ELSE IF result.returncode # 0 THEN <<>>
    ELSE LET latest_version == Strip(result.stdout)
         IN IF latest_version # dependency.version
            THEN <<[name |-> dependency.name,
                    current_version |-> dependency.version,
                    latest_version |-> latest_version,
                    type |-> dependency.type,
                    file |-> dependency.file]>>
            ELSE <<>>

\* _check_maven_upgrade(dependency)
check_maven_upgrade(dependency, response) ==
    IF response.raises THEN <<>>
    ELSE IF response.status_code # 200 THEN <<>>
    ELSE IF ~response.json THEN <<>>
    ELSE IF ~(response.numFound > 0) THEN <<>>
    ELSE IF response.docs = <<>> THEN <<>>
    ELSE LET latest_version == response.docs[1].latestVersion
         IN IF latest_version # dependency.version
            THEN <<[name |-> dependency.group_id \o Colon \o dependency.artifact_id,
                    group_id |-> dependency.group_id,
                    artifact_id |-> dependency.artifact_id,
                    current_version |-> dependency.version,
                    latest_version |-> latest_version,
                    file |-> dependency.file]>>
            ELSE <<>>

\* one iteration of `for dep in dependencies` in _find_upgrade_candidates
check_upgrade(ptype, dep, answer) ==
    IF ptype = "python" THEN check_python_upgrade(dep, answer)
    ELSE IF ptype = "nodejs" THEN check_nodejs_upgrade(dep, answer)
    ELSE IF ptype = "maven" THEN check_maven_upgrade(dep, answer)
    ELSE <<>>

\* whether the check reached its `except Exception` handler
CheckRaised(ptype, answer) ==
    \/ answer.raises
    \/ /\ ptype = "maven"
       /\ answer.status_code = 200
       /\ \/ ~answer.json
          \/ answer.numFound > 0 /\ answer.docs = <<>>

\* what the lookup asks the registry about
RegistryKey(ptype, dep) ==
    IF ptype = "maven" THEN <<dep.group_id, dep.artifact_id>> ELSE dep.name

----------------------------------------------------------------------------
(* The environment a scan runs in: sample file contents and registry answers *)

PkgA == <<"a">>
GroupG == <<"g">>
ArtifactB == <<"b">>

\* a==1.0 / b>=2.0 / # comment / blank line
ExampleRequirements ==
    <<"a", "=", "=", "1", ".", "0", "\n",
      "b", ">", "=", "2", ".", "0", "\n",
      "#", " ", "c", "o", "m", "m", "e", "n", "t", "\n",
      "\n">>

\* a==2.0
PinnedRequirements == <<"a", "=", "=", "2", ".", "0", "\n">>

\* {"dependencies": {"x": "^1.0", "y": "2.0"}, "devDependencies": {"x": "~1.0"}}
TwiceDeclaredPackageJson ==
    JsonOk(JDict(<<Item("dependencies", JDict(<<Item(PkgName, JStr(Caret \o V10)),
                                                Item(OtherPkgName, JStr(V20))>>)),
                   Item("devDependencies", JDict(<<Item(PkgName, JStr(Tilde \o V10))>>))>>))

\* {"dependencies": {"x": "^1.0", "y": 2}}
NumberVersionPackageJson ==
    JsonOk(JDict(<<Item("dependencies", JDict(<<Item(PkgName, JStr(Caret \o V10)),
                                                Item(OtherPkgName, JNum)>>))>>))

\* two <dependency> blocks, g:a 1.0 and g:b 2.0
TwoBlockPom ==
    PomOk(<<PomOther, PomOpen, PomGroupId(GroupG), PomArtifactId(PkgA), PomVersion(V10),
            PomClose, PomOther,
            PomOpen, PomGroupId(GroupG), PomArtifactId(ArtifactB), PomVersion(V20),
            PomClose, PomOther>>)

\* a block without <version> followed by a block g:b 2.0
ManagedPom ==
    PomOk(<<PomOpen, PomGroupId(GroupG), PomArtifactId(PkgA), PomClose,
            PomOpen, PomGroupId(GroupG), PomArtifactId(ArtifactB), PomVersion(V20), PomClose>>)

\* what read_text() (and json.loads) can give for a file the scan parses
Contents(f) ==
    IF NameIs(f, "requirements", ".txt")
    THEN {ReadOk(ExampleRequirements), ReadOk(PinnedRequirements), ReadError}
    ELSE IF NameIs(f, "package", ".json")
    THEN {TwiceDeclaredPackageJson, NumberVersionPackageJson, JsonInvalid}
    ELSE IF NameIs(f, "pom", ".xml")
    THEN {TwoBlockPom, ManagedPom, PomUnreadable}
    ELSE {ReadError}

PipHeader == <<"p", "k", "g", " ", "(", "2", ".", "0", ")", "\n">>

\* `pip index versions <name>`
PipAnswers ==
    {ProcRaises,
     Proc(1, <<>>),
     Proc(0, <<"W", "A", "R", "N", "\n">>),
     Proc(0, PipHeader \o AvailableVersions \o V20 \o CommaSpace \o V10 \o Newline),
     Proc(0, PipHeader \o AvailableVersions \o V10 \o Newline)}

\* `npm view <name> version`
NpmAnswers ==
    {ProcRaises, Proc(1, <<>>), Proc(0, V20 \o Newline), Proc(0, V10 \o Newline)}

\* GET https://search.maven.org/solrsearch/select?...
MavenAnswers ==
    {HttpRaises,
     Http(404, TRUE, 0, <<>>),
     Http(200, FALSE, 0, <<>>),
     Http(200, TRUE, 0, <<>>),
     Http(200, TRUE, 1, <<[latestVersion |-> V20]>>),
     Http(200, TRUE, 1, <<[latestVersion |-> V10]>>)}

Answers(ptype) ==
    IF ptype = "python" THEN PipAnswers
    ELSE IF ptype = "nodejs" THEN NpmAnswers
    ELSE MavenAnswers

\* the empty function
NoEntries == [x \in {} |-> x]

----------------------------------------------------------------------------
(* DependencyScanner._run as a state machine *)

ScanInit ==
    /\ pathExists \in BOOLEAN
    /\ tree \in IF pathExists THEN SetsUpTo(AllPaths, MaxFiles) ELSE {{}}
    /\ fileText = NoEntries
    /\ registry = NoEntries
    /\ dirOrder = <<>>
    /\ pc = "idle"
    /\ project_type = NoType
    /\ dependency_files = <<>>
    /\ dependencies = <<>>
    /\ upgrade_candidates = <<>>
    /\ fileIdx = 1
    /\ depIdx = 1
    /\ parsed = <<>>
    /\ calls = <<>>
    /\ candSrc = <<>>
    /\ returned = <<>>
    /\ previous = <<>>

ParserIdle ==
    /\ parserIn = [kind |-> "none"]
    /\ parserOut = <<>>

Init == ScanInit /\ ParserIdle /\ VdbIdle /\ GitIdle /\ LoopIdle

\* the report _run returns at its end
Report(ptype, files, deps, candidates) ==
    [project_type |-> ptype,
     dependency_files |-> [i \in 1..Len(files) |-> RelativeTo(files[i], Root)],
     dependencies |-> deps,
     upgrade_candidates |-> candidates]

PathError == [error |-> "Project path repo does not exist"]
TypeError == [error |-> "Could not determine project type"]

\* the values a caller may pass as project_path: the configured repository
\* path and a directory that does not exist
Elsewhere == <<"elsewhere">>
PathArguments == {Root, Elsewhere}

\* variant: line 27 as its comment has it, project_path = Path(project_path)
Locate_UseArgument ==
    /\ pc = "idle"
    /\ \E project_path \in PathArguments :
         IF ~(pathExists /\ project_path = Root)
         THEN /\ returned' = <<PathError>>
              /\ pc' = "done"
              /\ UNCHANGED <<dirOrder, project_type, dependency_files>>
         ELSE \E order \in Perms(SubDirs(tree)) :
                LET found == detect_project_type(tree, order)
                IN IF found[1] = NoType
                   THEN /\ returned' = <<TypeError>>
                        /\ pc' = "done"
                        /\ UNCHANGED <<dirOrder, project_type, dependency_files>>
                   ELSE /\ dirOrder' = order
                        /\ project_type' = found[1]
                        /\ dependency_files' = found[2]
                        /\ pc' = "parse"
                        /\ UNCHANGED returned
    /\ UNCHANGED <<envVars, dependencies, upgrade_candidates, fileIdx, depIdx,
                   parsed, calls, candSrc, previous, parserVars, toolVars>>

\* _run up to the type gate: the path check, _detect_project_type and
\* the `if not project_type` return
Locate ==
    /\ pc = "idle"
    /\ \E project_path \in PathArguments :   \* the argument, overwritten at line 27
         IF ~pathExists
         THEN /\ returned' = <<PathError>>
              /\ pc' = "done"
              /\ UNCHANGED <<dirOrder, project_type, dependency_files>>
         ELSE \E order \in Perms(SubDirs(tree)) :
                LET found == detect_project_type(tree, order)
                IN IF found[1] = NoType
                   THEN /\ returned' = <<TypeError>>
                        /\ pc' = "done"
                        /\ UNCHANGED <<dirOrder, project_type, dependency_files>>
                   ELSE /\ dirOrder' = order
                        /\ project_type' = found[1]
                        /\ dependency_files' = found[2]
                        /\ pc' = "parse"
                        /\ UNCHANGED returned
    /\ UNCHANGED <<envVars, dependencies, upgrade_candidates, fileIdx, depIdx,
                   parsed, calls, candSrc, previous, parserVars, toolVars>>

\* variant: _parse_dependencies returning after its first file, the lookups
\* starting while files are left unparsed
ParseFile_EarlyCheck ==
    /\ pc = "parse"
    /\ fileIdx <= Len(dependency_files)
    /\ LET f == dependency_files[fileIdx]
       IN IF HasParser(project_type, f)
          THEN \E read \in (IF f \in DOMAIN fileText THEN {fileText[f]} ELSE Contents(f)) :
                 /\ fileText' = (f :> read) @@ fileText
                 /\ dependencies' = dependencies \o parse_file(project_type, f, read)
                 /\ parsed' = Append(parsed,
                                     [file |-> f,
                                      raised |-> ParseRaised(project_type, f, read),
                                      records |-> parse_file(project_type, f, read)])
          ELSE UNCHANGED <<fileText, dependencies, parsed>>
    /\ fileIdx' = fileIdx + 1
    /\ pc' = "check"
    /\ UNCHANGED <<pathExists, tree, registry, dirOrder, project_type, dependency_files,
                   upgrade_candidates, depIdx, calls, candSrc, returned, previous,
                   parserVars, toolVars>>

\* variant: a parser without its try/except, _run turning the exception of a
\* file that cannot be parsed into an error value
ParseFile_ErrorOnRaise ==
    /\ pc = "parse"
    /\ fileIdx <= Len(dependency_files)
    /\ LET f == dependency_files[fileIdx]
       IN IF HasParser(project_type, f)
          THEN \E read \in (IF f \in DOMAIN fileText THEN {fileText[f]} ELSE Contents(f)) :
                 /\ fileText' = (f :> read) @@ fileText
                 /\ dependencies' = dependencies \o parse_file(project_type, f, read)
                 /\ parsed' = Append(parsed,
                                     [file |-> f,
                                      raised |-> ParseRaised(project_type, f, read),
                                      records |-> parse_file(project_type, f, read)])
                 /\ IF ParseRaised(project_type, f, read)
                    THEN /\ returned' = <<[error |-> "Error parsing file"]>>
                         /\ pc' = "done"
                    ELSE /\ returned' = returned
                         /\ pc' = IF fileIdx = Len(dependency_files) THEN "check" ELSE "parse"
          ELSE /\ UNCHANGED <<fileText, dependencies, parsed, returned>>
               /\ pc' = IF fileIdx = Len(dependency_files) THEN "check" ELSE "parse"
    /\ fileIdx' = fileIdx + 1
    /\ UNCHANGED <<pathExists, tree, registry, dirOrder, project_type, dependency_files,
                   upgrade_candidates, depIdx, calls, candSrc, previous, parserVars, toolVars>>

\* one iteration of the loop of _parse_dependencies; after the last file the
\* function returns and _find_upgrade_candidates starts
ParseFile ==
    /\ pc = "parse"
    /\ fileIdx <= Len(dependency_files)
    /\ LET f == dependency_files[fileIdx]
       IN IF HasParser(project_type, f)
          THEN \E read \in (IF f \in DOMAIN fileText THEN {fileText[f]} ELSE Contents(f)) :
                 /\ fileText' = (f :> read) @@ fileText
                 /\ dependencies' = dependencies \o parse_file(project_type, f, read)
                 /\ parsed' = Append(parsed,
                                     [file |-> f,
                                      raised |-> ParseRaised(project_type, f, read),
                                      records |-> parse_file(project_type, f, read)])
          ELSE UNCHANGED <<fileText, dependencies, parsed>>
    /\ fileIdx' = fileIdx + 1
    /\ pc' = IF fileIdx = Len(dependency_files) THEN "check" ELSE "parse"
    /\ UNCHANGED <<pathExists, tree, registry, dirOrder, project_type, dependency_files,
                   upgrade_candidates, depIdx, calls, candSrc, returned, previous,
                   parserVars, toolVars>>

\* variant: the try/except around the whole loop instead of inside each check,
\* so that a lookup that raises ends the loop
CheckDep_AbortOnRaise ==
    /\ pc = "check"
    /\ depIdx <= Len(dependencies)
    /\ LET dep == dependencies[depIdx]
           key == RegistryKey(project_type, dep)
       IN \E answer \in (IF key \in DOMAIN registry THEN {registry[key]}
                         ELSE Answers(project_type)) :
            LET candidates == check_upgrade(project_type, dep, answer)
            IN /\ registry' = (key :> answer) @@ registry
               /\ upgrade_candidates' = upgrade_candidates \o candidates
               /\ candSrc' = IF candidates = <<>> THEN candSrc ELSE Append(candSrc, depIdx)
               /\ calls' = Append(calls, [dep |-> depIdx, key |-> key, answer |-> answer,
                                          raised |-> CheckRaised(project_type, answer)])
               /\ depIdx' = IF CheckRaised(project_type, answer)
                            THEN Len(dependencies) + 1 ELSE depIdx + 1
    /\ UNCHANGED <<pathExists, tree, fileText, dirOrder, pc, project_type, dependency_files,
                   dependencies, fileIdx, parsed, returned, previous, parserVars, toolVars>>

\* variant: candidates.insert(0, upgrade_info) in place of append
CheckDep_Prepend ==
    /\ pc = "check"
    /\ depIdx <= Len(dependencies)
    /\ LET dep == dependencies[depIdx]
           key == RegistryKey(project_type, dep)
       IN \E answer \in (IF key \in DOMAIN registry THEN {registry[key]}
                         ELSE Answers(project_type)) :
            LET candidates == check_upgrade(project_type, dep, answer)
            IN /\ registry' = (key :> answer) @@ registry
               /\ upgrade_candidates' = candidates \o upgrade_candidates
               /\ candSrc' = IF candidates = <<>> THEN candSrc ELSE <<depIdx>> \o candSrc
               /\ calls' = Append(calls, [dep |-> depIdx, key |-> key, answer |-> answer,
                                          raised |-> CheckRaised(project_type, answer)])
    /\ depIdx' = depIdx + 1
    /\ UNCHANGED <<pathExists, tree, fileText, dirOrder, pc, project_type, dependency_files,
                   dependencies, fileIdx, parsed, returned, previous, parserVars, toolVars>>

\* variant: the answer for a package kept and used again for a later
\* dependency of the same name, without a second external call
CheckDep_Cached ==
    /\ pc = "check"
    /\ depIdx <= Len(dependencies)
    /\ LET dep == dependencies[depIdx]
           key == RegistryKey(project_type, dep)
       IN \E answer \in (IF key \in DOMAIN registry THEN {registry[key]}
                         ELSE Answers(project_type)) :
            LET candidates == check_upgrade(project_type, dep, answer)
            IN /\ registry' = (key :> answer) @@ registry
               /\ upgrade_candidates' = upgrade_candidates \o candidates
               /\ candSrc' = IF candidates = <<>> THEN candSrc ELSE Append(candSrc, depIdx)
               /\ calls' = IF \E c \in 1..Len(calls) : calls[c].key = key
                           THEN calls
                           ELSE Append(calls, [dep |-> depIdx, key |-> key,
                                               answer |-> answer,
                                               raised |-> CheckRaised(project_type, answer)])
    /\ depIdx' = depIdx + 1
    /\ UNCHANGED <<pathExists, tree, fileText, dirOrder, pc, project_type, dependency_files,
                   dependencies, fileIdx, parsed, returned, previous, parserVars, toolVars>>

\* one iteration of the loop of _find_upgrade_candidates: one external lookup
CheckDep ==
    /\ pc = "check"
    /\ depIdx <= Len(dependencies)
    /\ LET dep == dependencies[depIdx]
           key == RegistryKey(project_type, dep)
       IN \E answer \in (IF key \in DOMAIN registry THEN {registry[key]}
                         ELSE Answers(project_type)) :
            LET candidates == check_upgrade(project_type, dep, answer)
            IN /\ registry' = (key :> answer) @@ registry
               /\ upgrade_candidates' = upgrade_candidates \o candidates
               /\ candSrc' = IF candidates = <<>> THEN candSrc ELSE Append(candSrc, depIdx)
               /\ calls' = Append(calls, [dep |-> depIdx, key |-> key, answer |-> answer,
                                          raised |-> CheckRaised(project_type, answer)])
    /\ depIdx' = depIdx + 1
    /\ UNCHANGED <<pathExists, tree, fileText, dirOrder, pc, project_type, dependency_files,
                   dependencies, fileIdx, parsed, returned, previous, parserVars, toolVars>>

\* variant: _run returning an error value when no dependency was parsed
Assemble_ErrorOnEmpty ==
    /\ pc = "check"
    /\ depIdx > Len(dependencies)
    /\ returned' = IF dependencies = <<>>
                   THEN <<[error |-> "No dependencies found"]>>
                   ELSE <<Report(project_type, dependency_files,
                                 dependencies, upgrade_candidates)>>
    /\ pc' = "done"
    /\ UNCHANGED <<envVars, dirOrder, project_type, dependency_files, dependencies,
                   upgrade_candidates, fileIdx, depIdx, parsed, calls, candSrc, previous,
                   parserVars, toolVars>>

\* the return statement of _run
Assemble ==
    /\ pc = "check"
    /\ depIdx > Len(dependencies)
    /\ returned' = <<Report(project_type, dependency_files,
                         dependencies, upgrade_candidates)>>
    /\ pc' = "done"
    /\ UNCHANGED <<envVars, dirOrder, project_type, dependency_files, dependencies,
                   upgrade_candidates, fileIdx, depIdx, parsed, calls, candSrc, previous,
                   parserVars, toolVars>>

\* the tool is invoked again on the unchanged tree; the value the finished
\* call returned is kept for comparison
Rescan ==
    /\ pc = "done"
    /\ previous' = returned
    /\ returned' = <<>>
    /\ pc' = "idle"
    /\ dirOrder' = <<>>
    /\ project_type' = NoType
    /\ dependency_files' = <<>>
    /\ dependencies' = <<>>
    /\ upgrade_candidates' = <<>>
    /\ fileIdx' = 1
    /\ depIdx' = 1
    /\ parsed' = <<>>
    /\ calls' = <<>>
    /\ candSrc' = <<>>
    /\ UNCHANGED <<envVars, parserVars, toolVars>>

Next ==
    \/ Locate
    \/ ParseFile
    \/ CheckDep
    \/ Assemble
    \/ Rescan

Spec == Init /\ [][Next]_vars

----------------------------------------------------------------------------
(* Parser specification: one parser applied to one generated input *)

ParserFile == MkPath(Root, "requirements", ".txt")  \* the file_path argument

ReqAlphabet == {"a", "=", ">", "#", " ", "\n"}

\* requirement lines whose version specifier is neither == nor >=, alone and
\* followed by a further specifier, an environment marker or a comment
CompatibleRelease == <<"a", "~", "=", "1">>                          \* a~=1
LessThan == <<"a", "<", "2">>                                        \* a<2
Unpinned == <<"a">>                                                  \* a
CompatibleWithFloor == <<"a", "~", "=", "1", ",", ">", "=", "1">>    \* a~=1,>=1
UnpinnedWithMarker == <<"a", ";", "p", ">", "=", "3">>               \* a;p>=3
UnpinnedWithComment == <<"a", " ", "#", " ", "=", "=", "1">>         \* a # ==1

OtherOperatorRequirements ==
    {CompatibleRelease, LessThan, Unpinned, CompatibleWithFloor, UnpinnedWithMarker,
     UnpinnedWithComment}

RequirementsInputs ==
    {[kind |-> "requirements", read |-> ReadOk(t)] :
        t \in SeqsUpTo(ReqAlphabet, MaxLen) \cup {ExampleRequirements}
               \cup OtherOperatorRequirements}
    \cup {[kind |-> "requirements", read |-> ReadError]}

VersionAlphabet == {"^", "~", "1", "."}

\* one dependency whose version string is generated
GeneratedPackageJson ==
    {[kind |-> "package.json",
      read |-> JsonOk(JDict(<<Item("dependencies", JDict(<<Item(PkgName, JStr(v))>>))>>))] :
        v \in SeqsUpTo(VersionAlphabet, MaxLen)}

\* {"dependencies": {"x": "^1.2.3"}}
ExamplePackageJson ==
    JsonOk(JDict(<<Item("dependencies",
                        JDict(<<Item(PkgName, JStr(<<"^", "1", ".", "2", ".", "3">>))>>))>>))

\* the same package in both maps, with both prefixes
BothMapsPackageJson ==
    JsonOk(JDict(<<Item("dependencies", JDict(<<Item(PkgName, JStr(<<"^", "1", ".", "0">>)),
                                                Item(OtherPkgName, JStr(<<"1", ".", "0">>))>>)),
                   Item("devDependencies", JDict(<<Item(PkgName, JStr(<<"~", "1", ".", "0">>))>>))>>))

\* the entries one map of a package.json may hold: x and y, in either order
SectionItems ==
    LET x == Item(PkgName, JStr(<<"^", "1">>))
        y == Item(OtherPkgName, JStr(<<"1">>))
    IN {<<>>, <<x>>, <<y>>, <<x, y>>, <<y, x>>}

\* package.json documents with each of the two maps missing, empty or filled,
\* the maps in either document order
SectionedPackageJson ==
    LET sections(t) == {<<>>} \cup {<<Item(t, JDict(s))>> : s \in SectionItems}
    IN {JsonOk(JDict(deps \o dev)) : deps \in sections("dependencies"),
                                     dev \in sections("devDependencies")}
       \cup {JsonOk(JDict(dev \o deps)) : deps \in sections("dependencies"),
                                          dev \in sections("devDependencies")}

PackageJsonInputs ==
    GeneratedPackageJson
    \cup {[kind |-> "package.json", read |-> r] : r \in SectionedPackageJson}
    \cup {[kind |-> "package.json", read |-> r] :
            r \in {ExamplePackageJson, BothMapsPackageJson, NumberVersionPackageJson,
                   JsonInvalid, JsonUnreadable}}

\* a <dependency> block: its artifactId, its version (<<>> when the block has
\* no <version>) and whether an <exclusions> element follows
PomBlocks ==
    [artifact : {PkgA, ArtifactB}, version : {<<>>, V10, V20}, exclusions : BOOLEAN]

\* the elements of one block, with the elements between it and the next
BlockElements(b) ==
    <<PomOpen, PomGroupId(GroupG), PomArtifactId(b.artifact)>>
    \o (IF b.version = <<>> THEN <<>> ELSE <<PomVersion(b.version)>>)
    \o (IF b.exclusions THEN <<PomOther, PomGroupId(GroupG), PomArtifactId(PkgName)>>
        ELSE <<>>)
    \o <<PomClose, PomOther>>

RECURSIVE PomElements(_)
PomElements(blocks) ==
    IF blocks = <<>> THEN <<PomOther>>
    ELSE PomElements(SubSeq(blocks, 1, Len(blocks) - 1)) \o BlockElements(blocks[Len(blocks)])

\* all sequences over S of length at most n
RECURSIVE TuplesUpTo(_, _)
TuplesUpTo(S, n) ==
    IF n = 0 THEN {<<>>}
    ELSE LET shorter == TuplesUpTo(S, n - 1)
         IN shorter \cup {Append(t, x) : t \in {u \in shorter : Len(u) = n - 1}, x \in S}

PomInputs ==
    {[kind |-> "pom.xml", blocks |-> bs, read |-> PomOk(PomElements(bs))] :
        bs \in TuplesUpTo(PomBlocks, MaxBlocks)}
    \cup {[kind |-> "pom.xml", blocks |-> <<>>, read |-> PomUnreadable]}

PipAlphabet == {"1", "2", ",", " ", "\n"}

\* the dependency record the generated pip outputs are checked against
PipDependency ==
    [name |-> PkgName, version |-> <<"1">>, constraint |-> EqEq, file |-> ParserFile]

\* outputs of `pip index versions x` that exit with 0 and hold an
\* 'Available versions: ' line followed by generated text
PipInputs ==
    {[kind |-> "pip", dependency |-> PipDependency,
      result |-> Proc(0, AvailableVersions \o t)] : t \in SeqsUpTo(PipAlphabet, MaxLen)}

\* Visual Studio solution files, beside the files of AllPaths
SolutionPaths == {MkPath(d, "app", ".sln") : d \in Dirs}

\* project trees handed to both _detect_project_type methods, with the order
\* in which the subdirectories are listed
TreeInputs ==
    UNION {{[kind |-> "tree", files |-> t, order |-> o] : o \in Perms(SubDirs(t))} :
             t \in SetsUpTo(AllPaths \cup SolutionPaths, MaxFiles)}

\* operation strings: every operation of the three tools, and strings that
\* are none of them (another case, a trailing blank, the empty string)
Operations ==
    {"analyze_file", "modify_file", "search_code", "get_file", "compile", "test",
     "create_branch", "commit", "push", "create_pr",
     "Compile", "commit ", "delete", ""}

Tools == {"code_analysis", "compilation", "git_operations"}

DispatchInputs ==
    {[kind |-> "dispatch", tool |-> t, repo |-> r, operation |-> o] :
        t \in Tools, r \in BOOLEAN, o \in Operations}

\* the scan does not run in the parser specification
ScanIdle ==
    /\ pathExists = FALSE
    /\ tree = {}
    /\ fileText = NoEntries
    /\ registry = NoEntries
    /\ dirOrder = <<>>
    /\ pc = "off"
    /\ project_type = NoType
    /\ dependency_files = <<>>
    /\ dependencies = <<>>
    /\ upgrade_candidates = <<>>
    /\ fileIdx = 1
    /\ depIdx = 1
    /\ parsed = <<>>
    /\ calls = <<>>
    /\ candSrc = <<>>
    /\ returned = <<>>
    /\ previous = <<>>

ParserInit ==
    /\ ScanIdle
    /\ VdbIdle
    /\ GitIdle
    /\ LoopIdle
    /\ parserIn \in RequirementsInputs \cup PackageJsonInputs \cup PomInputs \cup PipInputs
                    \cup TreeInputs \cup DispatchInputs
    /\ parserOut = <<>>

RunParseRequirements ==
    /\ parserOut = <<>>
    /\ parserIn.kind = "requirements"
    /\ parserOut' = <<parse_requirements_txt(parserIn.read, ParserFile)>>
    /\ UNCHANGED <<parserIn, envVars, scanVars, returned, previous, toolVars>>

RunParsePackageJson ==
    /\ parserOut = <<>>
    /\ parserIn.kind = "package.json"
    /\ parserOut' = <<parse_package_json(parserIn.read, ParserFile)>>
    /\ UNCHANGED <<parserIn, envVars, scanVars, returned, previous, toolVars>>

RunParsePomXml ==
    /\ parserOut = <<>>
    /\ parserIn.kind = "pom.xml"
    /\ parserOut' = <<parse_pom_xml(parserIn.read, ParserFile)>>
    /\ UNCHANGED <<parserIn, envVars, scanVars, returned, previous, toolVars>>

\* _check_python_upgrade on one dependency and one pip result
RunCheckPython ==
    /\ parserOut = <<>>
    /\ parserIn.kind = "pip"
    /\ parserOut' = <<check_python_upgrade(parserIn.dependency, parserIn.result)>>
    /\ UNCHANGED <<parserIn, envVars, scanVars, returned, previous, toolVars>>

\* both detectors applied to one project tree
RunDetectProjectType ==
    /\ parserOut = <<>>
    /\ parserIn.kind = "tree"
    /\ parserOut' = <<[scanner |-> detect_project_type(parserIn.files, parserIn.order)[1],
                       compilation |-> compilation_detect_project_type(parserIn.files)]>>
    /\ UNCHANGED <<parserIn, envVars, scanVars, returned, previous, toolVars>>

\* one call of a tool's _run
RunDispatch ==
    /\ parserOut = <<>>
    /\ parserIn.kind = "dispatch"
    /\ parserOut' = <<IF parserIn.tool = "code_analysis"
                      THEN code_analysis_run(parserIn.operation)
                      ELSE IF parserIn.tool = "compilation"
                      THEN compilation_run(parserIn.operation)
                      ELSE git_run(parserIn.repo, parserIn.operation)>>
    /\ UNCHANGED <<parserIn, envVars, scanVars, returned, previous, toolVars>>

ParserNext ==
    \/ RunDispatch
    \/ RunDetectProjectType
    \/ RunParseRequirements
    \/ RunParsePackageJson
    \/ RunParsePomXml
    \/ RunCheckPython

SpecParser == ParserInit /\ [][ParserNext]_vars

----------------------------------------------------------------------------
(* Vector database specification: CodeVectorDB (src/tools/vector_db.py) on   *)
(* the directory that importing config.settings creates                      *)

\* variant: the existing store loaded whenever the directory exists, the
\* `and not force_refresh` of the first test missing
embed_project_LoadWhenExists(exists, store, force_refresh) ==
    IF exists
    THEN {[dbPath |-> TRUE, vector_store |-> "loaded", removed |-> FALSE,
           rebuilt |-> FALSE, raised |-> FALSE],
          [dbPath |-> TRUE, vector_store |-> store, removed |-> FALSE,
           rebuilt |-> FALSE, raised |-> TRUE]}
    ELSE {[dbPath |-> TRUE, vector_store |-> "built", removed |-> FALSE,
           rebuilt |-> TRUE, raised |-> FALSE],
          [dbPath |-> TRUE, vector_store |-> store, removed |-> FALSE,
           rebuilt |-> TRUE, raised |-> TRUE]}

\* embed_project(force_refresh=...) on a directory that exists or not and an
\* instance whose vector_store is store: the ways the call can end.  removed
\* is whether shutil.rmtree ran, rebuilt whether the project files were
\* collected and handed to Chroma.from_documents, raised whether the Chroma
\* call raised; Chroma creates persist_directory when it is constructed, so
\* the directory exists after the call either way
embed_project(exists, store, force_refresh) ==
    IF exists /\ ~force_refresh
    THEN {[dbPath |-> TRUE, vector_store |-> "loaded", removed |-> FALSE,
           rebuilt |-> FALSE, raised |-> FALSE],
          [dbPath |-> TRUE, vector_store |-> store, removed |-> FALSE,
           rebuilt |-> FALSE, raised |-> TRUE]}
    ELSE {[dbPath |-> TRUE, vector_store |-> "built", removed |-> exists /\ force_refresh,
           rebuilt |-> TRUE, raised |-> FALSE],
          [dbPath |-> TRUE, vector_store |-> store, removed |-> exists /\ force_refresh,
           rebuilt |-> TRUE, raised |-> TRUE]}

\* the module config.settings has been imported (Path(VECTOR_DB_PATH).mkdir)
\* and one CodeVectorDB() constructed
VdbInit ==
    /\ ScanIdle
    /\ ParserIdle
    /\ GitIdle
    /\ LoopIdle
    /\ dbPath = TRUE
    /\ vector_store = "None"
    /\ vdbLog = <<>>

\* one call of embed_project
EmbedProject ==
    /\ Len(vdbLog) < MaxCalls
    /\ \E force_refresh \in BOOLEAN :
         \E end \in embed_project(dbPath, vector_store, force_refresh) :
           /\ dbPath' = end.dbPath
           /\ vector_store' = end.vector_store
           /\ vdbLog' = Append(vdbLog,
                               [op |-> "embed_project", force_refresh |-> force_refresh,
                                existed |-> dbPath, before |-> vector_store,
                                embed_called |-> TRUE, removed |-> end.removed,
                                rebuilt |-> end.rebuilt, raised |-> end.raised,
                                after |-> end.vector_store])
    /\ UNCHANGED <<envVars, scanVars, returned, previous, parserVars, gitVars, loopVars>>

\* one call of query_codebase: embed_project() first when vector_store is not
\* set, then similarity_search_with_score, which may raise as well
QueryCodebase ==
    /\ Len(vdbLog) < MaxCalls
    /\ IF vector_store = "None"
       THEN \E end \in embed_project(dbPath, vector_store, FALSE) :
              \E search_raises \in BOOLEAN :
                /\ dbPath' = end.dbPath
                /\ vector_store' = end.vector_store
                /\ vdbLog' = Append(vdbLog,
                                    [op |-> "query_codebase", force_refresh |-> FALSE,
                                     existed |-> dbPath, before |-> vector_store,
                                     embed_called |-> TRUE, removed |-> end.removed,
                                     rebuilt |-> end.rebuilt,
                                     raised |-> end.raised \/ search_raises,
                                     after |-> end.vector_store])
       ELSE \E search_raises \in BOOLEAN :
              /\ vdbLog' = Append(vdbLog,
                                  [op |-> "query_codebase", force_refresh |-> FALSE,
                                   existed |-> dbPath, before |-> vector_store,
                                   embed_called |-> FALSE, removed |-> FALSE,
                                   rebuilt |-> FALSE, raised |-> search_raises,
                                   after |-> vector_store])
              /\ UNCHANGED <<dbPath, vector_store>>
    /\ UNCHANGED <<envVars, scanVars, returned, previous, parserVars, gitVars, loopVars>>

\* another CodeVectorDB() is constructed on the same directory (each agent
\* and tool has its own) and takes the place of this one
NewInstance ==
    /\ vector_store # "None"
    /\ vector_store' = "None"
    /\ UNCHANGED <<envVars, scanVars, returned, previous, parserVars, dbPath, vdbLog,
                   gitVars, loopVars>>

VdbNext ==
    \/ EmbedProject
    \/ QueryCodebase
    \/ NewInstance

SpecVectorDb == VdbInit /\ [][VdbNext]_vars

----------------------------------------------------------------------------
(* Commit specification: GitOperationsTool._commit_changes                   *)
(* (src/tools/git_operations.py) on a repository whose files the agent edits *)

\* the paths of the repository, relative to repo_path
RepoFiles == {"a.py", "b.py"}

\* commit_message arguments: None (the default of _run), "" and a text
NoMessage == "<None>"

CommitMessages == {NoMessage, "", "Upgrade dependencies"}

\* files arguments; None (the default) and [] both take the else branch of
\* `if files:` and are the empty list here
FileLists == TuplesUpTo(RepoFiles, 2)

\* which `git add` call raises GitCommandError: 0 for none, k for the k-th
AddFailures == 0..2

\* lines 87-95: `git add <file>` for each listed file that exists, in list
\* order, or `git add .`; a call that raises ends the staging.  A staged
\* path is a path whose changes are in the index
StageFiles(wt, dr, st, files, add_fails) ==
    LET adds == IF files # <<>>
                THEN SelectSeq(files, LAMBDA file : file \in wt)
                ELSE <<".">>
        raised == add_fails \in 1..Len(adds)
        done == IF raised THEN add_fails - 1 ELSE Len(adds)
        added == IF files # <<>> THEN {adds[i] : i \in 1..done}
                 ELSE IF done = 1 THEN RepoFiles ELSE {}
    IN [staged |-> st \cup (added \cap dr), dirty |-> dr \ added, raised |-> raised]

GitError == [success |-> FALSE, error |-> "GitCommandError"]

\* lines 97-107, from the test of the staged diff on
CommitStaged(cm, stage, commit_message, commit_fails) ==
    IF stage.raised
    THEN [staged |-> stage.staged, dirty |-> stage.dirty, commits |-> cm, result |-> GitError]
    ELSE IF stage.staged = {}
    THEN [staged |-> stage.staged, dirty |-> stage.dirty, commits |-> cm,
          result |-> [success |-> FALSE, message |-> "No changes to commit"]]
    ELSE IF commit_fails
    THEN [staged |-> stage.staged, dirty |-> stage.dirty, commits |-> cm, result |-> GitError]
    ELSE [staged |-> {}, dirty |-> stage.dirty,
          commits |-> Append(cm, [files |-> stage.staged, message |-> commit_message]),
          result |-> [success |-> TRUE,
                      message |-> <<"Changes committed with message: ", commit_message>>]]

\* variant: the commit message tested after the staging instead of first
commit_changes_StageFirst(wt, dr, st, cm, commit_message, files, add_fails, commit_fails) ==
    LET stage == StageFiles(wt, dr, st, files, add_fails)
    IN IF commit_message \in {NoMessage, ""}
       THEN [staged |-> stage.staged, dirty |-> stage.dirty, commits |-> cm,
             result |-> [error |-> "Commit message is required"]]
       ELSE CommitStaged(cm, stage, commit_message, commit_fails)

\* _commit_changes(commit_message, files) on a working tree with the existing
\* paths wt, the changed paths dr, the staged paths st and the commits cm:
\* the index, the commits and the returned value
commit_changes(wt, dr, st, cm, commit_message, files, add_fails, commit_fails) ==
    IF commit_message \in {NoMessage, ""}
    THEN [staged |-> st, dirty |-> dr, commits |-> cm,
          result |-> [error |-> "Commit message is required"]]
    ELSE CommitStaged(cm, StageFiles(wt, dr, st, files, add_fails),
                      commit_message, commit_fails)

\* a valid repository with a clean working tree that holds some of the files
GitInit ==
    /\ ScanIdle
    /\ ParserIdle
    /\ VdbIdle
    /\ LoopIdle
    /\ worktree \in SUBSET RepoFiles
    /\ dirty = {}
    /\ staged = {}
    /\ commits = <<>>
    /\ gitLog = <<>>

\* one call of _commit_changes; gitLog keeps the latest call
Commit ==
    /\ Len(commits) < MaxCalls
    /\ \E commit_message \in CommitMessages, files \in FileLists,
          add_fails \in AddFailures, commit_fails \in BOOLEAN :
         LET end == commit_changes(worktree, dirty, staged, commits,
                                   commit_message, files, add_fails, commit_fails)
         IN /\ staged' = end.staged
            /\ dirty' = end.dirty
            /\ commits' = end.commits
            /\ gitLog' = <<[commit_message |-> commit_message, files |-> files,
                            worktree |-> worktree, dirty |-> dirty, staged |-> staged,
                            commits |-> commits,
                            git_raised |-> \/ StageFiles(worktree, dirty, staged, files,
                                                         add_fails).raised
                                           \/ commit_fails,
                            result |-> end.result]>>
    /\ UNCHANGED <<envVars, scanVars, returned, previous, parserVars, vdbVars, worktree,
                   loopVars>>

\* the agent writes a file of the repository (code_analysis modify_file)
ModifyFile ==
    /\ \E file_path \in RepoFiles :
         /\ file_path \notin worktree \/ file_path \notin dirty
         /\ worktree' = worktree \cup {file_path}
         /\ dirty' = dirty \cup {file_path}
    /\ UNCHANGED <<envVars, scanVars, returned, previous, parserVars, vdbVars, staged,
                   commits, gitLog, loopVars>>

GitNext ==
    \/ Commit
    \/ ModifyFile

SpecCommit == GitInit /\ [][GitNext]_vars

----------------------------------------------------------------------------
(* Interactive specification: run_interactive_mode (src/main.py)             *)

\* str.lower() on the characters of the generated lines
LowerChar(c) ==
    CASE c = "E" -> "e"
      [] c = "X" -> "x"
      [] c = "I" -> "i"
      [] c = "T" -> "t"
      [] c = "Q" -> "q"
      [] OTHER -> c

Lower(text) == [i \in 1..Len(text) |-> LowerChar(text[i])]

ExitLine == <<"e", "x", "i", "t">>

\* the lines input("> ") returns: "exit" in every mix of cases, lines that
\* differ from it by one character or by a blank, the empty line, queries
InputLines ==
    {<<e, x, i, t>> : e \in {"e", "E"}, x \in {"x", "X"}, i \in {"i", "I"}, t \in {"t", "T"}}
      \cup {<<>>, <<"q">>, <<"Q">>, <<"e", "x", "i">>, <<"E", "X", "I", "T", "s">>,
             <<" ", "e", "x", "i", "t">>, <<"e", "x", "i", "t", " ">>}

\* variant: agent.run called outside a try block, its exception leaving the
\* function
loop_iteration_NoTry(user_input, raises) ==
    IF Lower(user_input) = ExitLine
    THEN [pc |-> "left", runs |-> 0, reported |-> FALSE]
    ELSE IF raises
    THEN [pc |-> "raised", runs |-> 1, reported |-> FALSE]
    ELSE [pc |-> "input", runs |-> 1, reported |-> FALSE]

\* one pass of the while loop on the line user_input, agent.run raising an
\* Exception or not: where the loop is afterwards, how many times agent.run
\* was called and whether the error message was printed and logged
loop_iteration(user_input, raises) ==
    IF Lower(user_input) = ExitLine
    THEN [pc |-> "left", runs |-> 0, reported |-> FALSE]
    ELSE [pc |-> "input", runs |-> 1, reported |-> raises]

\* run_interactive_mode has printed its greeting and is about to read
LoopInit ==
    /\ ScanIdle
    /\ ParserIdle
    /\ VdbIdle
    /\ GitIdle
    /\ loopPc = "input"
    /\ inputLog = <<>>

\* one pass of the loop
ReadLine ==
    /\ loopPc = "input"
    /\ Len(inputLog) < MaxLines
    /\ \E user_input \in InputLines, raises \in BOOLEAN :
         LET end == loop_iteration(user_input, raises)
         IN /\ end.runs = 0 => ~raises
            /\ loopPc' = end.pc
            /\ inputLog' = Append(inputLog,
                                  [line |-> user_input, runs |-> end.runs,
                                   raised |-> raises, reported |-> end.reported])
    /\ UNCHANGED <<envVars, scanVars, returned, previous, parserVars, vdbVars, gitVars>>

LoopNext == ReadLine

SpecInteractive == LoopInit /\ [][LoopNext]_vars

----------------------------------------------------------------------------
(* Vocabulary of the properties *)

IsReport(r) == "project_type" \in DOMAIN r
IsError(r) == "error" \in DOMAIN r

\* the value returned by the _run call that just finished
LastReturned == returned[1]

\* the values returned by this call and the one before it
Returned == Range(returned) \cup Range(previous)

Finished == pc = "done" /\ returned # <<>>
FinishedWithReport == Finished /\ IsReport(LastReturned)

\* the sample answers by which a registry reports v as the latest version
\* (section 6 of the specification: pip's "Available versions: v1, v2, ...",
\* npm's bare version, Maven Central's docs[0].latestVersion)
AnswersReporting(ptype, v) ==
    IF ptype = "python"
    THEN {Proc(0, PipHeader \o AvailableVersions \o v \o Newline),
          Proc(0, PipHeader \o AvailableVersions \o v \o CommaSpace \o V10 \o Newline)}
    ELSE IF ptype = "nodejs" THEN {Proc(0, v \o Newline)}
    ELSE {Http(200, TRUE, 1, <<[latestVersion |-> v]>>)}

SampleVersions == {V10, V20}

\* the ecosystem whose marker a file is, by its name alone
MarkerType(f) ==
    IF f.suffix = ".csproj" THEN "dotnet"
    ELSE IF <<f.stem, f.suffix>> \in {<<"requirements", ".txt">>, <<"setup", ".py">>,
                                      <<"pyproject", ".toml">>} THEN "python"
    ELSE IF <<f.stem, f.suffix>> = <<"package", ".json">> THEN "nodejs"
    ELSE IF <<f.stem, f.suffix>> = <<"pom", ".xml">> THEN "maven"
    ELSE IF <<f.stem, f.suffix>> \in {<<"build", ".gradle">>, <<"build.gradle", ".kts">>}
    THEN "gradle"
    ELSE NoType

Priority == <<"python", "nodejs", "maven", "gradle", "dotnet">>

TypesPresent == {MarkerType(f) : f \in tree} \ {NoType}

\* the records of all parser invocations so far, in order
RECURSIVE ParsedRecords(_)
ParsedRecords(history) ==
    IF history = <<>> THEN <<>>
    ELSE Head(history).records \o ParsedRecords(Tail(history))

\* the k-th smallest element of a set of numbers
Kth(S, k) == CHOOSE i \in S : Cardinality({j \in S : j <= i}) = k

Stripped(s) == s = <<>> \/ (s[1] \notin Whitespace /\ s[Len(s)] \notin Whitespace)

----------------------------------------------------------------------------
(* Properties of the scan (specification Spec) *)

\* C1: every candidate of a returned report has latest_version different from
\* current_version, and a dependency whose lookup reported a latest version
\* equal to its parsed version contributes no candidate (python, nodejs, maven)
C1_UpToDateIsNoCandidate ==
    /\ \A r \in Returned :
         IsReport(r) =>
           \A i \in 1..Len(r.upgrade_candidates) :
             r.upgrade_candidates[i].latest_version
               # r.upgrade_candidates[i].current_version
    /\ \A c \in 1..Len(calls) :
         calls[c].answer \in AnswersReporting(project_type, dependencies[calls[c].dep].version)
           => calls[c].dep \notin Range(candSrc)
    /\ FinishedWithReport => LastReturned.upgrade_candidates = upgrade_candidates

\* C1 witness: a finished scan in which one lookup reported the parsed version
\* itself and another dependency became a candidate
C1_Witness ==
    /\ FinishedWithReport
    /\ LastReturned.upgrade_candidates # <<>>
    /\ \E c \in 1..Len(calls) :
         calls[c].answer \in AnswersReporting(project_type, dependencies[calls[c].dep].version)

\* C2: a lookup that raises yields no candidate, does not end the loop (every
\* dependency is looked up exactly once, in order), and the report still holds
\* the candidates of the dependencies whose lookup reported another version
C2_LookupFailureIsolated ==
    /\ \A c \in 1..Len(calls) :
         /\ calls[c].dep = c
         /\ calls[c].raised => c \notin Range(candSrc)
         /\ \A v \in SampleVersions :
              (calls[c].answer \in AnswersReporting(project_type, v)
                 /\ v # dependencies[c].version) => c \in Range(candSrc)
    /\ FinishedWithReport =>
         /\ Len(calls) = Len(dependencies)
         /\ LastReturned.upgrade_candidates = upgrade_candidates
         /\ Len(upgrade_candidates) = Len(candSrc)

\* C2 witness: a finished scan whose report holds a candidate of a dependency
\* looked up after a lookup that raised
C2_Witness ==
    /\ FinishedWithReport
    /\ \E c1, c2 \in 1..Len(calls) :
         /\ c1 < c2
         /\ calls[c1].raised
         /\ c2 \in Range(candSrc)
         /\ LastReturned.upgrade_candidates # <<>>

\* C3 (as claimed): a scan of a tree without any marker file returns the error
\* together with an empty dependencies sequence
C3_ErrorWithEmptyDependencies ==
    (Finished /\ pathExists /\ TypesPresent = {}) =>
        /\ IsError(LastReturned)
        /\ "dependencies" \in DOMAIN LastReturned
        /\ LastReturned.dependencies = <<>>

\* C4: the detected type is the first type, in the order python, nodejs, maven,
\* gradle, dotnet, that has a marker file in the tree, and dependency_files
\* holds exactly that type's marker files, each once
C4_FirstMatchWins ==
    (pc \in {"parse", "check"} \/ FinishedWithReport) =>
        /\ TypesPresent # {}
        /\ \E i \in 1..Len(Priority) :
             /\ project_type = Priority[i]
             /\ Priority[i] \in TypesPresent
             /\ \A j \in 1..(i - 1) : Priority[j] \notin TypesPresent
        /\ Range(dependency_files) = {f \in tree : MarkerType(f) = project_type}
        /\ Len(dependency_files) = Cardinality(Range(dependency_files))

\* C4 witness: markers of two types in the tree, the later one not reported
C4_Witness ==
    /\ FinishedWithReport
    /\ project_type = "nodejs"
    /\ "maven" \in TypesPresent
    /\ \A i \in 1..Len(LastReturned.dependency_files) :
         LastReturned.dependency_files[i].stem = "package"

\* C7 (as claimed): a per-file parser that hits an exception contributes no
\* record, and the report holds the records of the other files
C7_FailedFileContributesNothing ==
    /\ \A k \in 1..Len(parsed) : parsed[k].raised => parsed[k].records = <<>>
    /\ FinishedWithReport => LastReturned.dependencies = ParsedRecords(parsed)

\* C8 (as claimed): the name of every candidate matches the name of exactly
\* one entry of dependencies in the same report
C8_CandidateMatchesOneDependency ==
    \A r \in Returned :
        IsReport(r) =>
          \A i \in 1..Len(r.upgrade_candidates) :
            Cardinality({d \in 1..Len(r.dependencies) :
                           r.dependencies[d].name = r.upgrade_candidates[i].name}) = 1

\* C9: every dependency record of the report carries the path of the file it
\* was parsed from, the report's dependencies are the parsed records unchanged,
\* and every candidate carries the file of the dependency it was derived from
C9_ProvenancePreserved ==
    /\ \A k \in 1..Len(parsed) :
         /\ parsed[k].file \in tree
         /\ \A i \in 1..Len(parsed[k].records) : parsed[k].records[i].file = parsed[k].file
    /\ dependencies = ParsedRecords(parsed)
    /\ Len(upgrade_candidates) = Len(candSrc)
    /\ \A i \in 1..Len(candSrc) :
         upgrade_candidates[i].file = dependencies[candSrc[i]].file
    /\ FinishedWithReport =>
         /\ LastReturned.dependencies = ParsedRecords(parsed)
         /\ Len(LastReturned.upgrade_candidates) <= Len(LastReturned.dependencies)
         /\ \A i \in 1..Len(candSrc) :
              LastReturned.upgrade_candidates[i].file
                = LastReturned.dependencies[candSrc[i]].file

\* C9 witness: a report with records of two files and a candidate from the second
C9_Witness ==
    /\ FinishedWithReport
    /\ Len(parsed) = 2
    /\ parsed[1].records # <<>>
    /\ \E i \in 1..Len(candSrc) :
         LastReturned.upgrade_candidates[i].file = parsed[2].file

\* C10 (as claimed): two scans of the unchanged tree return the same project
\* type and the same dependency file sequence
C10_RescanSameTypeAndFiles ==
    \A r1, r2 \in Returned :
        (IsReport(r1) /\ IsReport(r2)) =>
            /\ r1.project_type = r2.project_type
            /\ r1.dependency_files = r2.dependency_files

\* candidate c carries the name, version, file and map of dependency d
DerivedFrom(c, d) ==
    /\ c.name = d.name
    /\ c.current_version = d.version
    /\ c.file = d.file
    /\ "type" \in DOMAIN c => c.type = d.type

\* whether the candidates can be matched, in order, to dependencies at
\* strictly increasing positions after position from
RECURSIVE Embeds(_, _, _)
Embeds(candidates, deps, from) ==
    IF candidates = <<>> THEN TRUE
    ELSE LET hits == {d \in (from + 1)..Len(deps) : DerivedFrom(Head(candidates), deps[d])}
         IN hits # {} /\ Embeds(Tail(candidates), deps, Min(hits))

\* C15: upgrade_candidates is derived as a subsequence of dependencies: each
\* dependency contributes at most one candidate, the candidates are in the
\* order of the dependencies they come from, and they are never more than
\* the dependencies
C15_CandidatesSubsequence ==
    /\ Embeds(upgrade_candidates, dependencies, 0)
    /\ Len(upgrade_candidates) <= Len(dependencies)
    /\ \A i, j \in 1..Len(candSrc) : i < j => candSrc[i] < candSrc[j]
    /\ \A r \in Returned :
         IsReport(r) =>
           /\ Embeds(r.upgrade_candidates, r.dependencies, 0)
           /\ Len(r.upgrade_candidates) <= Len(r.dependencies)

\* C15 witness: a report of three or more dependencies whose two candidates
\* come from the first and the third
C15_Witness ==
    /\ FinishedWithReport
    /\ Len(LastReturned.dependencies) >= 3
    /\ Len(LastReturned.upgrade_candidates) = 2
    /\ candSrc = <<1, 3>>

\* position of a stage in the order Locator, Parser, Checker, Assembler
StageRank(stage) ==
    IF stage = "idle" THEN 1
    ELSE IF stage = "parse" THEN 2
    ELSE IF stage = "check" THEN 3
    ELSE 4

\* what the stage order means in every state of a scan
StagesSeparate ==
    /\ pc \in {"idle", "parse"} => calls = <<>> /\ returned = <<>>
    /\ pc = "idle" => parsed = <<>>
    /\ calls # <<>> => fileIdx > Len(dependency_files)
    /\ \A c \in 1..Len(calls) : calls[c].dep = c
    /\ pc = "check" => returned = <<>>
    /\ FinishedWithReport =>
         /\ fileIdx > Len(dependency_files)
         /\ depIdx > Len(dependencies)
         /\ Len(calls) = Len(dependencies)

\* what the stage order means for every step of a scan
StagesAdvance ==
    /\ StageRank(pc') >= StageRank(pc) \/ (pc = "done" /\ pc' = "idle")
    /\ pc # "done" =>
         /\ fileIdx' \in {fileIdx, fileIdx + 1}
         /\ depIdx' \in {depIdx, depIdx + 1}
         /\ fileIdx' # fileIdx => pc = "parse"
         /\ depIdx' # depIdx => pc = "check" /\ Len(calls') = Len(calls) + 1
         /\ Len(calls') \in {Len(calls), Len(calls) + 1}

\* C16: within one scan the stages run in the order Locator, Parser, Checker,
\* Assembler and none is re-entered: no lookup starts before every file has
\* been parsed, the lookups happen one at a time in dependency order, and the
\* report is built only after the last lookup
C16_StagesInOrder == [](StagesSeparate) /\ [][StagesAdvance]_vars

\* C16 witness: a report built after two files were parsed and then two or
\* more lookups made
C16_Witness ==
    /\ FinishedWithReport
    /\ Len(parsed) = 2
    /\ Len(calls) >= 2
    /\ Len(calls) = Len(dependencies)

\* the ecosystems _find_upgrade_candidates has a check for
CheckedTypes == {"python", "nodejs", "maven"}

\* C17: in a python, nodejs or maven scan the checker issues exactly one
\* external call per dependency record, in record order, asking about that
\* record's package: no call is repeated and none is saved for a record whose
\* name has been looked up before, so a finished scan made as many calls as
\* it has records
C17_OneCallPerRecord ==
    project_type \in CheckedTypes =>
        /\ pc = "check" => Len(calls) = depIdx - 1
        /\ \A c \in 1..Len(calls) :
             /\ calls[c].dep = c
             /\ calls[c].key = RegistryKey(project_type, dependencies[c])
        /\ FinishedWithReport => Len(calls) = Len(LastReturned.dependencies)

\* C17 witness: a finished scan with two records of the same package, the
\* first lookup raising and the second made all the same
C17_Witness ==
    /\ FinishedWithReport
    /\ \E c1, c2 \in 1..Len(calls) :
         /\ c1 < c2
         /\ dependencies[c1].name = dependencies[c2].name
         /\ calls[c1].raised
         /\ calls[c2].key = calls[c1].key

ReportFields == {"project_type", "dependency_files", "dependencies", "upgrade_candidates"}

\* C18 (as claimed): the only scan failure _run returns is the one of the
\* type-detection gate
C18_OnlyTypeGateFails ==
    (Finished /\ IsError(LastReturned)) => LastReturned = TypeError

\* C18 (amended): _run returns an error value, and raises nothing, exactly
\* when the project path does not exist or no project type is detected;
\* in every other scan, whatever files fail to parse and whatever lookups
\* fail, it returns a report with the four fields
C18_FailuresOfRun ==
    Finished =>
        /\ IsError(LastReturned) <=> (~pathExists \/ TypesPresent = {})
        /\ ~pathExists => LastReturned = PathError
        /\ (pathExists /\ TypesPresent = {}) => LastReturned = TypeError
        /\ (pathExists /\ TypesPresent # {}) =>
             /\ DOMAIN LastReturned = ReportFields
             /\ LastReturned.project_type = Priority[Min({i \in 1..Len(Priority) :
                                                             Priority[i] \in TypesPresent})]
             /\ Len(LastReturned.dependency_files) = Len(dependency_files)
             /\ LastReturned.dependencies = dependencies
             /\ LastReturned.upgrade_candidates = upgrade_candidates

\* C18 witness: a full report returned by a scan in which a file failed to
\* parse and a lookup raised
C18_Witness ==
    /\ FinishedWithReport
    /\ \E k \in 1..Len(parsed) : parsed[k].raised
    /\ \E c \in 1..Len(calls) : calls[c].raised

\* the scan of a path that does not exist returned its own error value
C18_PathError ==
    Finished /\ ~pathExists /\ LastReturned = PathError

\* a lookup that completed without an exception and gave no latest version
NoLatest(ptype, answer) ==
    /\ ~answer.raises
    /\ IF ptype = "python"
       THEN answer.returncode # 0 \/ ~Contains(answer.stdout, AvailableVersions)
       ELSE IF ptype = "nodejs" THEN answer.returncode # 0
       ELSE answer.status_code # 200 \/ (answer.json /\ answer.numFound = 0)

\* C20: a lookup that completes without an exception and yields no latest
\* version produces no candidate for its dependency, and the dependencies
\* after it are still looked up
C20_NoLatestNoCandidate ==
    project_type \in CheckedTypes =>
        /\ \A c \in 1..Len(calls) :
             NoLatest(project_type, calls[c].answer) =>
               /\ c \notin Range(candSrc)
               /\ ~calls[c].raised
               /\ \A i \in 1..Len(upgrade_candidates) :
                    ~DerivedFrom(upgrade_candidates[i], dependencies[c])
                    \/ \E d \in 1..Len(dependencies) :
                         /\ d # c
                         /\ d \in Range(candSrc)
                         /\ DerivedFrom(upgrade_candidates[i], dependencies[d])
        /\ FinishedWithReport => Len(calls) = Len(dependencies)

\* C20 witness: a finished scan in which a lookup without a latest version is
\* followed by a lookup that gives a candidate
C20_Witness ==
    /\ FinishedWithReport
    /\ \E c1, c2 \in 1..Len(calls) :
         /\ c1 < c2
         /\ NoLatest(project_type, calls[c1].answer)
         /\ c2 \in Range(candSrc)
         /\ LastReturned.upgrade_candidates # <<>>

\* C24: when the detected type has no parser for any located file (gradle,
\* dotnet, or python found only through setup.py or pyproject.toml) the scan
\* returns a report, not an error, with a non-empty dependency_files, empty
\* dependencies and empty upgrade_candidates, and makes no registry call
C24_NoParserEmptyReport ==
    (Finished /\ project_type # NoType
       /\ \A i \in 1..Len(dependency_files) :
            ~HasParser(project_type, dependency_files[i])) =>
        /\ IsReport(LastReturned)
        /\ ~IsError(LastReturned)
        /\ LastReturned.project_type = project_type
        /\ LastReturned.dependency_files # <<>>
        /\ LastReturned.dependencies = <<>>
        /\ LastReturned.upgrade_candidates = <<>>
        /\ calls = <<>>
        /\ registry = NoEntries
        /\ parsed = <<>>

\* C24 witness: a finished python scan that located setup.py and
\* pyproject.toml only
C24_Witness ==
    /\ FinishedWithReport
    /\ LastReturned.project_type = "python"
    /\ Len(LastReturned.dependency_files) = 2
    /\ \A i \in 1..Len(dependency_files) :
         ~NameIs(dependency_files[i], "requirements", ".txt")
    /\ LastReturned.dependencies = <<>>

\* finished gradle and dotnet scans with their empty reports
C24_GradleOrDotnet ==
    /\ FinishedWithReport
    /\ LastReturned.project_type \in {"gradle", "dotnet"}
    /\ LastReturned.dependencies = <<>>

C25_PathMissing ==
    Finished /\ previous = <<PathError>> /\ LastReturned = PathError

----------------------------------------------------------------------------
(* Properties of the per-file parsers (specification SpecParser) *)

RequirementsRan ==
    parserIn.kind = "requirements" /\ parserOut # <<>> /\ parserIn.read.ok

\* C5: _parse_requirements_txt yields one record per line that, stripped, is
\* not empty, does not start with '#' and contains == or >=, in line order,
\* with the constraint found in the line and name and version the stripped
\* text before and after it; the lines a==1.0, b>=2.0, # comment and a blank
\* line yield exactly {a,1.0,==} and {b,2.0,>=}
C5_RequirementsRecords ==
    RequirementsRan =>
        LET lines == SplitLines(parserIn.read.text)
            recs == parserOut[1]
            eligible == {i \in 1..Len(lines) :
                           LET l == Strip(lines[i])
                           IN /\ l # <<>>
                              /\ l[1] # "#"
                              /\ (Contains(l, EqEq) \/ Contains(l, GtEq))}
        IN /\ Len(recs) = Cardinality(eligible)
           /\ \A k \in 1..Len(recs) :
                LET l == Strip(lines[Kth(eligible, k)])
                    r == recs[k]
                IN /\ r.constraint \in {EqEq, GtEq}
                   /\ ~Contains(l, GtEq) => r.constraint = EqEq
                   /\ ~Contains(l, EqEq) => r.constraint = GtEq
                   /\ \E j \in 1..(Len(l) - 1) :
                        /\ SubSeq(l, j, j + 1) = r.constraint
                        /\ r.name = Strip(SubSeq(l, 1, j - 1))
                        /\ r.version = Strip(SubSeq(l, j + 2, Len(l)))
                   /\ Stripped(r.name)
                   /\ Stripped(r.version)
                   /\ r.file = ParserFile
           /\ parserIn.read.text = ExampleRequirements =>
                recs = <<[name |-> <<"a">>, version |-> V10, constraint |-> EqEq,
                          file |-> ParserFile],
                         [name |-> <<"b">>, version |-> V20, constraint |-> GtEq,
                          file |-> ParserFile]>>

\* C5 witness: the four example lines parsed into two records
C5_Witness ==
    /\ RequirementsRan
    /\ parserIn.read.text = ExampleRequirements
    /\ Len(parserOut[1]) = 2

\* the characters version specifier operators are written with
OperatorChars == {"=", ">", "<", "~", "!"}

\* the requirement part of a line: what precedes an environment marker or a
\* comment
RequirementPart(line) ==
    LET cut == {i \in 1..Len(line) : line[i] \in {";", "#"}}
    IN IF cut = {} THEN line ELSE SubSeq(line, 1, Min(cut) - 1)

\* the operator of the first version specifier of a line, <<>> when it has none
Specifier(line) ==
    LET part == RequirementPart(line)
        ops == {i \in 1..Len(part) : part[i] \in OperatorChars}
    IN IF ops = {} THEN <<>>
       ELSE LET first == Min(ops)
                last == Max({j \in first..Len(part) :
                               \A k \in first..j : part[k] \in OperatorChars})
            IN SubSeq(part, first, last)

\* C11: a requirements line whose version specifier is not == or >=, or that
\* has none, never produces a record, whatever else the line contains: the
\* records are at most as many as the lines whose specifier is == or >=
C11_OtherOperatorsDropped ==
    RequirementsRan =>
        LET lines == SplitLines(parserIn.read.text)
        IN Len(parserOut[1]) <=
             Cardinality({i \in 1..Len(lines) : Specifier(lines[i]) \in {EqEq, GtEq}})

PackageJsonRan ==
    /\ parserIn.kind = "package.json"
    /\ parserOut # <<>>
    /\ parserIn.read.ok
    /\ parserIn.read.valid

\* C6: for every package.json dependency whose version starts with ^ or ~ the
\* record holds that character as constraint and the version with exactly
\* that one leading character removed
C6_PrefixStripped ==
    PackageJsonRan =>
        LET value == parserIn.read.value
            recs == parserOut[1]
        IN \A t \in {u \in Range(DepTypes) : HasKey(value, u)} :
             \A n \in 1..Len(Lookup(value, t).items) :
               LET it == Lookup(value, t).items[n]
                   v == it.value.chars
                   matching == {k \in 1..Len(recs) :
                                  recs[k].name = it.key /\ recs[k].type = t}
               IN (it.value.type = "str" /\ v # <<>> /\ v[1] \in {"^", "~"}) =>
                    /\ ~PackageJsonRaised(parserIn.read) => Cardinality(matching) = 1
                    /\ \A k \in matching :
                         /\ recs[k].constraint = <<v[1]>>
                         /\ recs[k].constraint \o recs[k].version = v
                         /\ Len(recs[k].version) = Len(v) - 1

\* C6 witness: {"dependencies": {"x": "^1.2.3"}} parsed into x, 1.2.3, ^
C6_Witness ==
    /\ PackageJsonRan
    /\ parserIn.read = ExamplePackageJson
    /\ parserOut[1] = <<[name |-> PkgName, version |-> <<"1", ".", "2", ".", "3">>,
                         constraint |-> Caret, type |-> "dependencies",
                         file |-> ParserFile]>>

\* the entries of map t of a parsed package.json, none when the map is missing
Entries(value, t) == IF HasKey(value, t) THEN Lookup(value, t).items ELSE <<>>

\* C12: for every package.json dependency whose version does not start with
\* ^ or ~ the recorded version is the original string, unchanged
C12_UnprefixedUnchanged ==
    PackageJsonRan =>
        LET value == parserIn.read.value
            recs == parserOut[1]
        IN \A t \in {"dependencies", "devDependencies"} :
             \A n \in 1..Len(Entries(value, t)) :
               LET it == Entries(value, t)[n]
                   v == it.value.chars
                   matching == {k \in 1..Len(recs) :
                                  recs[k].name = it.key /\ recs[k].type = t}
               IN (it.value.type = "str" /\ ~StartsWith(v, Caret) /\ ~StartsWith(v, Tilde)) =>
                    /\ ~PackageJsonRaised(parserIn.read) => Cardinality(matching) = 1
                    /\ \A k \in matching : recs[k].version = v

\* C12 witness: the exact pin "y": "1.0" recorded as 1.0
C12_Witness ==
    /\ PackageJsonRan
    /\ parserIn.read = BothMapsPackageJson
    /\ parserOut[1][2].name = OtherPkgName
    /\ parserOut[1][2].version = <<"1", ".", "0">>

\* C13: a package.json that parses yields exactly one record per entry of
\* dependencies followed by one per entry of devDependencies, in entry order,
\* each tagged with its map; a missing map contributes nothing
C13_OneRecordPerEntry ==
    (PackageJsonRan /\ ~PackageJsonRaised(parserIn.read)) =>
        LET value == parserIn.read.value
            recs == parserOut[1]
            deps == Entries(value, "dependencies")
            dev == Entries(value, "devDependencies")
        IN /\ Len(recs) = Len(deps) + Len(dev)
           /\ \A k \in 1..Len(deps) :
                recs[k].name = deps[k].key /\ recs[k].type = "dependencies"
           /\ \A k \in 1..Len(dev) :
                /\ recs[Len(deps) + k].name = dev[k].key
                /\ recs[Len(deps) + k].type = "devDependencies"

\* C13 witness: devDependencies written first in the document and
\* dependencies second, two entries each, parsed into four records
C13_Witness ==
    /\ PackageJsonRan
    /\ Len(parserIn.read.value.items) = 2
    /\ parserIn.read.value.items[1].key = "devDependencies"
    /\ Len(Entries(parserIn.read.value, "dependencies")) = 2
    /\ Len(Entries(parserIn.read.value, "devDependencies")) = 2
    /\ Len(parserOut[1]) = 4

\* a package.json with one map missing parsed into the other map's records
C13_MissingMap ==
    /\ PackageJsonRan
    /\ ~HasKey(parserIn.read.value, "dependencies")
    /\ parserOut[1] # <<>>

PomRan == parserIn.kind = "pom.xml" /\ parserOut # <<>> /\ parserIn.read.ok

PipRan == parserIn.kind = "pip" /\ parserOut # <<>>

\* the characters that separate the versions of a versions line
Separators == Whitespace \cup {","}

\* the first token of a line whose tokens are separated by commas or
\* whitespace, <<>> when the line has none
FirstToken(line) ==
    LET chars == {i \in 1..Len(line) : line[i] \notin Separators}
    IN IF chars = {} THEN <<>>
       ELSE LET first == Min(chars)
                last == Max({j \in first..Len(line) :
                               \A k \in first..j : line[k] \notin Separators})
            IN SubSeq(line, first, last)

\* C19: _check_python_upgrade takes as the latest version the first
\* whitespace/comma-separated token of the first 'Available versions' line
\* and compares it with the dependency's version; the token holds no comma
\* and no whitespace, however the line is formatted
C19_FirstTokenIsLatest ==
    PipRan =>
        LET line == RestOfLine(SubSeq(parserIn.result.stdout, Len(AvailableVersions) + 1,
                                      Len(parserIn.result.stdout)))
            token == FirstToken(line)
            found == parserOut[1]
        IN /\ found = <<>> <=> token = parserIn.dependency.version
           /\ found # <<>> =>
                /\ found[1].latest_version = token
                /\ \A i \in 1..Len(found[1].latest_version) :
                     found[1].latest_version[i] \notin Separators

\* the blocks with a <version>, as the records they should give
VersionedBlocks(blocks) == SelectSeq(blocks, LAMBDA b : b.version # <<>>)

\* C22: every record of _parse_pom_xml takes groupId, artifactId and version
\* from one block: the records are those of the blocks that have a
\* <version>, in order, and a block without one yields nothing
C22_RecordFromOneBlock ==
    PomRan =>
        LET expected == VersionedBlocks(parserIn.blocks)
            recs == parserOut[1]
        IN /\ Len(recs) = Len(expected)
           /\ \A k \in 1..Len(expected) :
                /\ recs[k].artifact_id = expected[k].artifact
                /\ recs[k].version = expected[k].version

\* C23: every nodejs record has constraint ^ or ~; a version with neither
\* prefix is recorded with ^, as a caret range of the same version is
C23_ConstraintCaretOrTilde ==
    PackageJsonRan =>
        LET value == parserIn.read.value
            recs == parserOut[1]
        IN /\ \A k \in 1..Len(recs) : recs[k].constraint \in {Caret, Tilde}
           /\ \A t \in {"dependencies", "devDependencies"} :
                \A n \in 1..Len(Entries(value, t)) :
                  LET it == Entries(value, t)[n]
                      v == it.value.chars
                  IN (it.value.type = "str" /\ ~StartsWith(v, Caret)
                        /\ ~StartsWith(v, Tilde)) =>
                       \A k \in 1..Len(recs) :
                          (recs[k].name = it.key /\ recs[k].type = t) =>
                             /\ recs[k].constraint = Caret
                             /\ recs[k] = PackageRecord(it.key, Caret \o v, t, ParserFile)

\* C23 witness: "x": "^1.0" and "y": "1.0" recorded with the same constraint
\* and version
C23_Witness ==
    /\ PackageJsonRan
    /\ parserIn.read = BothMapsPackageJson
    /\ parserOut[1][1].constraint = Caret
    /\ parserOut[1][2].constraint = Caret
    /\ parserOut[1][1].version = parserOut[1][2].version

\* C30: a line holding both == and >= yields exactly one record, with
\* constraint == and split at the first ==; no line yields two records
C30_EqEqBeforeGtEq ==
    RequirementsRan =>
        LET lines == SplitLines(parserIn.read.text)
            recs == parserOut[1]
        IN /\ Len(recs) <= Len(lines)
           /\ Len(lines) = 1 =>
                LET l == Strip(lines[1])
                IN (Contains(l, EqEq) /\ Contains(l, GtEq) /\ ~StartsWith(l, Hash)) =>
                     /\ Len(recs) = 1
                     /\ recs[1].constraint = EqEq
                     /\ recs[1].name = Strip(SubSeq(l, 1, Find(l, EqEq) - 1))
                     /\ recs[1].version = Strip(SubSeq(l, Find(l, EqEq) + 2, Len(l)))

\* C30 witness: the line a==>= parsed into name a, version >=
C30_Witness ==
    /\ RequirementsRan
    /\ parserIn.read.text = <<"a", "=", "=", ">", "=">>
    /\ Len(parserOut[1]) = 1
    /\ parserOut[1][1].constraint = EqEq
    /\ parserOut[1][1].name = <<"a">>
    /\ parserOut[1][1].version = GtEq

DetectRan == parserIn.kind = "tree" /\ parserOut # <<>>

\* C26: CompilationTool._detect_project_type and
\* DependencyScanner._detect_project_type return the same project type, or
\* both none, for every set of files under the root
C26_DetectorsAgree ==
    DetectRan => parserOut[1].scanner = parserOut[1].compilation

\* the two detectors agree on every tree without a .sln file
C26_AgreeWithoutSolution ==
    (DetectRan /\ parserIn.files \cap SolutionPaths = {}) =>
        parserOut[1].scanner = parserOut[1].compilation

DispatchRan == parserIn.kind = "dispatch" /\ parserOut # <<>>

\* the closed set of operations of each tool, with the handler of each
HandlerOf(tool) ==
    IF tool = "code_analysis"
    THEN [analyze_file |-> "_analyze_file", modify_file |-> "_modify_file",
          search_code |-> "_search_code", get_file |-> "_get_file"]
    ELSE IF tool = "compilation"
    THEN [compile |-> "_compile_project", test |-> "_run_tests"]
    ELSE [create_branch |-> "_create_branch", commit |-> "_commit_changes",
          push |-> "_push_changes", create_pr |-> "_create_pull_request"]

\* C21: each dispatcher invokes exactly the one handler of the operation
\* string; for an operation outside the tool's closed set it returns the
\* error value 'Unknown operation: <op>' and invokes no handler;
\* GitOperationsTool with an invalid repository returns an error and invokes
\* no handler for every operation, known or not
C21_DispatchByOperation ==
    DispatchRan =>
        LET tool == parserIn.tool
            op == parserIn.operation
            out == parserOut[1]
            invalid == tool = "git_operations" /\ ~parserIn.repo
        IN /\ Len(out.handlers) <= 1
           /\ invalid => out.handlers = <<>> /\ IsError(out.value)
           /\ (~invalid /\ op \in DOMAIN HandlerOf(tool)) =>
                /\ out.handlers = <<HandlerOf(tool)[op]>>
                /\ out.value = [handled_by |-> HandlerOf(tool)[op]]
           /\ (~invalid /\ op \notin DOMAIN HandlerOf(tool)) =>
                /\ out.handlers = <<>>
                /\ out.value = [error |-> <<"Unknown operation: ", op>>]

\* C21 witness: CompilationTool called with "Compile" returning the error
\* without a handler
C21_Witness ==
    /\ DispatchRan
    /\ parserIn.tool = "compilation"
    /\ parserIn.operation = "Compile"
    /\ parserOut[1].handlers = <<>>
    /\ parserOut[1].value = [error |-> <<"Unknown operation: ", "Compile">>]

\* GitOperationsTool with an invalid repository refusing "commit"
C21_InvalidRepository ==
    /\ DispatchRan
    /\ parserIn.tool = "git_operations"
    /\ ~parserIn.repo
    /\ parserIn.operation = "commit"
    /\ parserOut[1] = InvalidRepository

----------------------------------------------------------------------------
(* Properties of the vector database (specification SpecVectorDb) *)

C27_FirstCallLoads ==
    /\ Len(vdbLog) = 1
    /\ vdbLog[1].op = "embed_project"
    /\ ~vdbLog[1].force_refresh
    /\ vdbLog[1].after = "loaded"

----------------------------------------------------------------------------
(* Properties of the commit operation (specification SpecCommit) *)

\* the paths the latest call could stage: every path, or the listed paths
\* that exist
Stageable(call) ==
    IF call.files = <<>> THEN RepoFiles
    ELSE {call.files[i] : i \in 1..Len(call.files)} \cap call.worktree

\* C28: the latest call of _commit_changes created a commit only with a
\* non-empty message and a non-empty staged diff after its staging; with an
\* empty message it returned the error with the index as it was; with no
\* staged change it returned success false, 'No changes to commit', and
\* created no commit; listed files that do not exist are skipped: unless a
\* git command raised, the call fails or succeeds by the message and the
\* staged changes of the other files only
C28_CommitNeedsMessageAndChanges ==
    \A c \in 1..Len(gitLog) :
      LET call == gitLog[c]
          empty == call.commit_message \in {NoMessage, ""}
          after == call.staged \cup (call.dirty \cap Stageable(call))
          created == commits # call.commits
      IN /\ created =>
              /\ ~empty
              /\ after # {}
              /\ commits = Append(call.commits,
                                  [files |-> after, message |-> call.commit_message])
              /\ staged = {}
              /\ call.result.success
         /\ empty =>
              /\ call.result = [error |-> "Commit message is required"]
              /\ staged = call.staged
              /\ ~created
         /\ (~empty /\ ~call.git_raised /\ after = {}) =>
              /\ call.result = [success |-> FALSE, message |-> "No changes to commit"]
              /\ ~created
              /\ staged = {}
         /\ (~empty /\ ~call.git_raised) =>
              /\ "error" \notin DOMAIN call.result
              /\ created <=> after # {}
         /\ (~empty /\ ~created) => call.staged \subseteq staged

\* C28 witness: a call that listed a missing file and a changed one and
\* committed the changed one
C28_Witness ==
    /\ gitLog # <<>>
    /\ gitLog[1].files = <<"a.py", "b.py">>
    /\ "a.py" \notin gitLog[1].worktree
    /\ "b.py" \in gitLog[1].worktree \cap gitLog[1].dirty
    /\ gitLog[1].staged = {}
    /\ ~gitLog[1].git_raised
    /\ commits = Append(gitLog[1].commits,
                        [files |-> {"b.py"}, message |-> "Upgrade dependencies"])

\* a call with staged changes and an empty message: the error, no commit
C28_EmptyMessage ==
    /\ gitLog # <<>>
    /\ gitLog[1].commit_message = ""
    /\ gitLog[1].staged # {}
    /\ gitLog[1].dirty # {}
    /\ commits = gitLog[1].commits

\* a call that found nothing staged after adding an unchanged file
C28_NoChanges ==
    /\ gitLog # <<>>
    /\ gitLog[1].files = <<"a.py">>
    /\ "a.py" \in gitLog[1].worktree
    /\ gitLog[1].dirty = {"b.py"}
    /\ gitLog[1].result = [success |-> FALSE, message |-> "No changes to commit"]

----------------------------------------------------------------------------
(* Properties of the interactive loop (specification SpecInteractive) *)

\* the loop is reading or was left by break, and each line read so far was
\* handled as its text requires
LinesHandled ==
    /\ loopPc \in {"input", "left"}
    /\ loopPc = "left" <=> (inputLog # <<>> /\ Lower(inputLog[Len(inputLog)].line) = ExitLine)
    /\ \A n \in 1..Len(inputLog) :
         IF Lower(inputLog[n].line) = ExitLine
         THEN n = Len(inputLog) /\ inputLog[n].runs = 0
         ELSE /\ inputLog[n].runs = 1
              /\ inputLog[n].raised => inputLog[n].reported

\* a step that reads a line is taken in the loop, leaves it on "exit" and
\* stays in it on every other line, whatever the lines before it did
LineStep ==
    inputLog' # inputLog =>
      /\ loopPc = "input"
      /\ Len(inputLog') = Len(inputLog) + 1
      /\ SubSeq(inputLog', 1, Len(inputLog)) = inputLog
      /\ IF Lower(inputLog'[Len(inputLog')].line) = ExitLine
         THEN loopPc' = "left"
         ELSE loopPc' = "input"

C29_BlankIsQuery ==
    /\ inputLog # <<>>
    /\ inputLog[1].line = <<"e", "x", "i", "t", " ">>
    /\ inputLog[1].runs = 1
    /\ loopPc = "input"

====
